---- MODULE Spec2Model ----
(***************************************************************************)
(* AutoModeService (auto-mode-service, src/unnamed/part_000): the registry *)
(* of running feature executions, the auto loop, the run / verify / resume *)
(* entry points, the feature list file and the per-feature context files.  *)
(*                                                                         *)
(* One step of the model is the code an async function runs between two    *)
(* suspension points that matter to the shared state: the wait for the     *)
(* next delegate message, a sleep, and the first file access of an entry   *)
(* point.  Consecutive file accesses of one function are taken in one step *)
(* in Spec; SpecLog takes the read and the write of one context-file       *)
(* append as two steps.                                                    *)
(***************************************************************************)
EXTENDS Naturals, Sequences, FiniteSets, TLC

\* ------------------------------------------------------------------ bounds
NProcs == 2          \* calls that may be in flight at once
MaxMsgs == 1         \* assistant messages one delegate stream delivers
NFeatures == 1       \* records in feature_list.json
NWriters == 2        \* SpecLog: executions appending to one context file
MaxLogLen == 3       \* SpecLog: texts a context file holds
MaxRecords == 2      \* SpecStore: records in feature_list.json
MaxClock == 1        \* SpecStore: values Date.now() takes
NLoopFeatures == 2   \* SpecLoop: records in feature_list.json
NUpdaters == 2       \* SpecOverlap: executions calling updateFeatureStatus
MaxBlocks == 2       \* SpecBlocks: content blocks of one assistant message
MaxTaken == 2        \* SpecBlocks: messages one stream loop takes up
NQueries == 2        \* SpecEnv: executeQuery calls of the Claude provider

\* ------------------------------------------------------- program constants
maxAttempts == 3

Procs == 1..NProcs
Features == SubSeq(<<"f1", "f2", "f3", "f4">>, 1, NFeatures)
FeatureIds == {Features[i] : i \in 1..Len(Features)}
RequestIds == FeatureIds \cup {"fx"}       \* fx: an id no record has
AnalysisIds == {"project-analysis"}
Ids == RequestIds \cup AnalysisIds
Statuses == {"backlog", "in_progress", "verified"}
NoFeature == "none"
NoController == "null"

VARIABLES
  autoLoopRunning,   \* this.autoLoopRunning
  autoLoopAbortController,   \* this.autoLoopAbortController
  runningFeatures,   \* this.runningFeatures: id -> execution object (0: no entry)
  execution,         \* the execution object each call created
  controller,        \* the AbortController each call's current pass created
  task,              \* the calls in flight, one slot each
  fileReadable,      \* feature_list.json exists and parses
  featureList,       \* the records of feature_list.json, in file order
  contextFile,       \* agents-context/<id>.md exists, per feature id
  logFile,           \* SpecLog: one context file, with its content
  writer,            \* SpecLog: the writeToContextFile calls in flight
  storeFile,         \* SpecStore: the content of feature_list.json
  storeLogs,         \* SpecStore: the ids whose context file exists
  now,               \* SpecStore: Date.now()
  lastUpdate,        \* SpecStore: the last updateFeatureStatus call
  updater,           \* SpecOverlap: the updateFeatureStatus calls in flight
  stream,            \* SpecBlocks: the stream loops, block by block
  processEnv,        \* SpecEnv: process.env
  firstEnv,          \* SpecEnv: process.env before the first executeQuery call
  provider           \* SpecEnv: the executeQuery calls

logVars == <<logFile, writer>>

sideVars == <<stream, processEnv, firstEnv, provider>>

\* what stop() leaves alone of the variables of the further specifications
stopFrame == <<storeFile, storeLogs, now, lastUpdate, updater, sideVars>>

storeVars == <<stopFrame, autoLoopAbortController>>

vars == <<autoLoopRunning, autoLoopAbortController, runningFeatures,
          execution, controller, task,
          fileReadable, featureList, contextFile, logFile, writer,
          storeFile, storeLogs, now, lastUpdate, updater,
          stream, processEnv, firstEnv, provider>>

\* ------------------------------------------------------------ feature list
\* variant: the catch of loadFeatures is lost and the records are returned
\* whether or not the file could be read
loadFeaturesUnchecked == featureList

\* loadFeatures: the records of the file, [] when it cannot be read or parsed
loadFeatures == IF fileReadable THEN featureList ELSE <<>>

\* variant: find falls back on the first record
findOrFirst(features, featureId) ==
  IF \E i \in 1..Len(features) : features[i].id = featureId
  THEN CHOOSE i \in 1..Len(features) :
         /\ features[i].id = featureId
         /\ \A j \in 1..(i - 1) : features[j].id # featureId
  ELSE IF Len(features) > 0 THEN 1 ELSE 0

\* features.find((f) => f.id === featureId): index of the record, 0 when none
find(features, featureId) ==
  IF \E i \in 1..Len(features) : features[i].id = featureId
  THEN CHOOSE i \in 1..Len(features) :
         /\ features[i].id = featureId
         /\ \A j \in 1..(i - 1) : features[j].id # featureId
  ELSE 0

statusOf(featureId) ==
  IF find(loadFeatures, featureId) = 0 THEN "missing"
  ELSE loadFeatures[find(loadFeatures, featureId)].status

\* variant: only the records in backlog are selected
selectNextBacklog(features) ==
  IF \E i \in 1..Len(features) : features[i].status = "backlog"
  THEN CHOOSE i \in 1..Len(features) :
         /\ features[i].status = "backlog"
         /\ \A j \in 1..(i - 1) : features[j].status # "backlog"
  ELSE 0

\* variant: the selection passes over the records already registered
selectNextUnregistered(features) ==
  IF \E i \in 1..Len(features) :
       features[i].status # "verified" /\ runningFeatures[features[i].id] = 0
  THEN CHOOSE i \in 1..Len(features) :
         /\ features[i].status # "verified" /\ runningFeatures[features[i].id] = 0
         /\ \A j \in 1..(i - 1) :
              features[j].status = "verified" \/ runningFeatures[features[j].id] # 0
  ELSE 0

\* selectNextFeature: first record in file order whose status is not verified
selectNextFeature(features) ==
  IF \E i \in 1..Len(features) : features[i].status # "verified"
  THEN CHOOSE i \in 1..Len(features) :
         /\ features[i].status # "verified"
         /\ \A j \in 1..(i - 1) : features[j].status = "verified"
  ELSE 0

\* ------------------------------------------------------------ context file
\* Spec keeps of a context file whether it exists (its content is the subject
\* of SpecLog): writeToContextFile leaves the file existing
writeToContextFile(files, featureId) == [files EXCEPT ![featureId] = TRUE]

\* deleteContextFile: unlink; a missing file is not an error
deleteContextFile(files, featureId) == [files EXCEPT ![featureId] = FALSE]

\* variant: the file is not rewritten
updatedListNothing(featureId, status) == featureList

\* updateFeatureStatus, the feature list part: load, find, set status, rewrite
updatedList(featureId, status) ==
  IF find(loadFeatures, featureId) = 0 THEN featureList
  ELSE [featureList EXCEPT ![find(loadFeatures, featureId)].status = status]

\* variant: the context file is deleted on every status
updatedFilesAnyStatus(files, featureId, status) ==
  IF find(loadFeatures, featureId) # 0
  THEN deleteContextFile(files, featureId)
  ELSE files

\* updateFeatureStatus, the context file part: deleted on verified
updatedFiles(files, featureId, status) ==
  IF find(loadFeatures, featureId) # 0 /\ status = "verified"
  THEN deleteContextFile(files, featureId)
  ELSE files

\* SpecLog keeps the content: the texts appended, in order
NoFile == [exists |-> FALSE, content |-> <<>>]
Writers == 1..NWriters
Texts == {"a", "b"}
IdleWriter == [pc |-> "idle", readOk |-> FALSE, existing |-> <<>>, content |-> <<>>]

\* --------------------------------------------------------------- registry
NewExecution == [abortController |-> 0, query |-> FALSE]

\* this.runningFeatures.set(id, {abortController: null, query: null, ...})
register(reg, id, p) == [reg EXCEPT ![id] = p]

\* variant: the cleanup empties the registry
unregisterAll(reg, id) == [i \in DOMAIN reg |-> 0]

\* variant: the cleanup deletes nothing
unregisterNothing(reg, id) == reg

\* this.runningFeatures.delete(id)
unregister(reg, id) == [reg EXCEPT ![id] = 0]

\* execution.abortController = null; execution.query = null
cleared(execs, o) ==
  IF o = 0 THEN execs ELSE [execs EXCEPT ![o] = NewExecution]

\* ------------------------------------------------------------------ calls
IdleTask ==
  [kind |-> "idle", featureId |-> NoFeature, pc |-> "idle", exec |-> 0,
   attempts |-> 0, calls |-> 0, msgs |-> 0,
   passes |-> FALSE, outcome |-> "none", error |-> "none",
   errorEvent |-> FALSE, completeEvent |-> FALSE,
   toolStatus |-> "none", clean |-> TRUE, cancelled |-> FALSE]

InFlight(p) == task[p].pc # "idle"

\* a slot takes a new call when its last call is over and no call in flight
\* still holds the execution object that call created
Free(p) ==
  /\ ~InFlight(p)
  /\ \A q \in Procs : InFlight(q) => task[q].exec # p

NewTask(kind, id) ==
  [IdleTask EXCEPT !.kind = kind, !.featureId = id, !.pc = "load"]

\* a call that is over keeps what it was and how it ended
Ended(t) ==
  [IdleTask EXCEPT !.kind = t.kind, !.featureId = t.featureId,
                   !.calls = t.calls, !.toolStatus = t.toolStatus,
                   !.clean = t.clean]

\* throw new Error("... already running"), before the try: no event is sent
Rejected(kind, id) ==
  [IdleTask EXCEPT !.kind = kind, !.featureId = id, !.outcome = "raised",
                   !.error = "already_running"]

\* catch: auto_mode_error is sent, the error is thrown again
Raised(t, err) ==
  [Ended(t) EXCEPT !.outcome = "raised", !.error = err, !.errorEvent = TRUE]

\* return { success: true, passes }
Returned(t, passes) ==
  [Ended(t) EXCEPT !.outcome = "returned", !.passes = passes]

\* The history fields of a call, toolStatus and clean, are kept for the call
\* in the observed slot; the other slots are its environment.
\*   toolStatus: the last status its delegate set for its own feature through
\*               the tool ("none": the delegate never called the tool for it)
\*   clean:      no stop() and no other call or delegate wrote its feature
\*               while it was in flight, and each of its passes ended with
\*               the end of the stream
\* cancelled is kept for every call: its last pass caught AbortError
Observed == {1}

\* the calls the step of q disturbs: those in flight on the feature it writes
disturb(tk, q, id) ==
  [p \in Procs |->
     IF p # q /\ p \in Observed /\ tk[p].pc # "idle" /\ tk[p].featureId = id
     THEN [tk[p] EXCEPT !.clean = FALSE] ELSE tk[p]]

\* no updateFeatureStatus call has been made
NoUpdate == [id |-> "", status |-> "", outcome |-> "none", answer |-> "none"]

Updaters == 1..NUpdaters

\* no updateFeatureStatus call of the execution is in flight
IdleUpdater ==
  [pc |-> "idle", origin |-> "none", id |-> "", status |-> "", features |-> <<>>]

\* the content blocks of an assistant message the stream loops act on
BlockTypes == {"text", "tool_use"}

\* no stream loop is followed block by block
IdleStream ==
  [kind |-> "none", featureId |-> NoFeature, pc |-> "idle", blocks |-> <<>>,
   msgs |-> 0, hasStartedToolUse |-> FALSE, events |-> <<>>]

\* the environment variables executeQuery may set, and a variable not set
EnvKeys == {"ANTHROPIC_AUTH_TOKEN", "ANTHROPIC_API_KEY"}
Absent == "absent"
Queries == 1..NQueries

\* const originalEnv = {}; const envKeysToRestore = []
IdleQuery ==
  [pc |-> "idle", originalEnv |-> [k \in EnvKeys |-> Absent],
   envKeysToRestore |-> {}]

\* SpecBlocks' and SpecEnv's variables where they are not followed
SideIdle ==
  /\ stream = [p \in Procs |-> IdleStream]
  /\ processEnv = [k \in EnvKeys |-> Absent]
  /\ firstEnv = [k \in EnvKeys |-> Absent]
  /\ provider = [q \in Queries |-> IdleQuery]

\* SpecStore's variables where the records are not followed field by field
StoreIdle ==
  /\ storeFile = [readable |-> TRUE, records |-> <<>>]
  /\ storeLogs = {}
  /\ now = 0
  /\ lastUpdate = NoUpdate
  /\ updater = [u \in Updaters |-> IdleUpdater]
  /\ SideIdle

Init ==
  /\ autoLoopRunning = FALSE
  /\ autoLoopAbortController = NoController
  /\ runningFeatures = [id \in Ids |-> 0]
  /\ execution = [p \in Procs |-> NewExecution]
  /\ controller = [p \in Procs |-> "none"]
  /\ task = [p \in Procs |-> IdleTask]
  /\ fileReadable \in BOOLEAN
  /\ \E st \in [1..Len(Features) -> Statuses] :
       featureList = [i \in 1..Len(Features) |->
                        [id |-> Features[i], status |-> st[i]]]
  /\ contextFile = [f \in FeatureIds |-> FALSE]
  /\ logFile = NoFile
  /\ writer = [w \in Writers |-> IdleWriter]
  /\ StoreIdle

\* ------------------------------------------------------------ entry points
\* variant: the has() check is lost and the entry is overwritten
EnterUnchecked(kind, p, featureId) ==
  /\ Free(p)
  /\ runningFeatures' = register(runningFeatures, featureId, p)
  /\ execution' = [execution EXCEPT ![p] = NewExecution]
  /\ task' = [task EXCEPT ![p] = NewTask(kind, featureId)]
  /\ UNCHANGED <<autoLoopRunning, controller, fileReadable, featureList,
                 contextFile>>
  /\ UNCHANGED <<logVars, storeVars>>

\* runFeature / verifyFeature / resumeFeature, up to the first await:
\* the has() check and the registration
Enter(kind, p, featureId) ==
  /\ Free(p)
  /\ IF runningFeatures[featureId] # 0
     THEN /\ task' = [task EXCEPT ![p] = Rejected(kind, featureId)]
          /\ UNCHANGED <<runningFeatures, execution>>
     ELSE /\ runningFeatures' = register(runningFeatures, featureId, p)
          /\ execution' = [execution EXCEPT ![p] = NewExecution]
          /\ task' = [task EXCEPT ![p] = NewTask(kind, featureId)]
  /\ UNCHANGED <<autoLoopRunning, controller, fileReadable, featureList,
                 contextFile>>
  /\ UNCHANGED <<logVars, storeVars>>

RunFeature(p, featureId) == Enter("run", p, featureId)

VerifyFeature(p, featureId) == Enter("verify", p, featureId)

ResumeFeature(p, featureId) == Enter("resume", p, featureId)

\* the catch and finally of an entry point: error event, registry cleanup
Fail(p, err) ==
  /\ task' = [disturb(task, p, task[p].featureId) EXCEPT ![p] = Raised(task[p], err)]
  /\ runningFeatures' = unregister(runningFeatures, task[p].featureId)

\* a state-machine pass starts on execution object o (what
\* this.runningFeatures.get(id) returned): the opening context-file messages
\* and a new AbortController; implementFeature stops here at sleep(500), the
\* other state machines go on to query()
BeginPass(tk, p, o, toStream) ==
  LET id == tk[p].featureId IN
  /\ contextFile' = writeToContextFile(contextFile, id)
  /\ controller' = [controller EXCEPT ![p] = "live"]
  /\ task' = [disturb(tk, p, id) EXCEPT
                ![p].exec = o,
                ![p].pc = IF toStream THEN "stream" ELSE "sleep500",
                ![p].calls = IF toStream THEN @ + 1 ELSE @,
                ![p].msgs = 0]

\* execution.abortController = abortController; execution.query = currentQuery
attached(execs, o, p, toStream) ==
  [execs EXCEPT ![o] = [abortController |-> p, query |-> toStream]]

\* runFeature after registration: load, find, status in_progress, then
\* implementFeature up to its sleep(500)
RunLoad(p) ==
  /\ task[p].kind = "run" /\ task[p].pc = "load"
  /\ LET id == task[p].featureId IN
     IF find(loadFeatures, id) = 0
     THEN /\ Fail(p, "not_found")
          /\ UNCHANGED <<featureList, contextFile, controller, execution>>
     ELSE /\ featureList' = updatedList(id, "in_progress")
          /\ IF runningFeatures[id] = 0
             THEN /\ Fail(p, "not_registered")
                  /\ UNCHANGED <<contextFile, controller, execution>>
             ELSE /\ BeginPass(task, p, runningFeatures[id], FALSE)
                  /\ execution' = attached(execution, runningFeatures[id], p, FALSE)
                  /\ UNCHANGED runningFeatures
  /\ UNCHANGED <<autoLoopRunning, fileReadable>>
  /\ UNCHANGED <<logVars, storeVars>>

\* implementFeature after sleep(500): the action message and query()
ImplementAction(p) ==
  /\ task[p].kind \in {"run", "loop"} /\ task[p].pc = "sleep500"
  /\ contextFile' = writeToContextFile(contextFile, task[p].featureId)
  /\ execution' = [execution EXCEPT ![task[p].exec].query = TRUE]
  /\ task' = [disturb(task, p, task[p].featureId) EXCEPT
                ![p].pc = "stream", ![p].calls = @ + 1]
  /\ UNCHANGED <<autoLoopRunning, runningFeatures, controller, fileReadable,
                 featureList>>
  /\ UNCHANGED <<logVars, storeVars>>

\* verifyFeature after registration: load, find, then verifyFeatureTests up
\* to its stream
VerifyLoad(p) ==
  /\ task[p].kind = "verify" /\ task[p].pc = "load"
  /\ LET id == task[p].featureId IN
     IF find(loadFeatures, id) = 0
     THEN /\ Fail(p, "not_found")
          /\ UNCHANGED <<contextFile, controller, execution>>
     ELSE IF runningFeatures[id] = 0
     THEN /\ Fail(p, "not_registered")
          /\ UNCHANGED <<contextFile, controller, execution>>
     ELSE /\ BeginPass(task, p, runningFeatures[id], TRUE)
          /\ execution' = attached(execution, runningFeatures[id], p, TRUE)
          /\ UNCHANGED runningFeatures
  /\ UNCHANGED <<autoLoopRunning, fileReadable, featureList>>
  /\ UNCHANGED <<logVars, storeVars>>

\* resumeFeature after registration: load, find, read the context file, then
\* resumeFeatureWithContext up to its stream
ResumeLoad(p) ==
  /\ task[p].kind = "resume" /\ task[p].pc = "load"
  /\ LET id == task[p].featureId IN
     IF find(loadFeatures, id) = 0
     THEN /\ Fail(p, "not_found")
          /\ UNCHANGED <<contextFile, controller, execution>>
     ELSE IF runningFeatures[id] = 0
     THEN /\ Fail(p, "not_registered")
          /\ UNCHANGED <<contextFile, controller, execution>>
     ELSE /\ BeginPass(task, p, runningFeatures[id], TRUE)
          /\ execution' = attached(execution, runningFeatures[id], p, TRUE)
          /\ UNCHANGED runningFeatures
  /\ UNCHANGED <<autoLoopRunning, fileReadable, featureList>>
  /\ UNCHANGED <<logVars, storeVars>>

\* ---------------------------------------------------------- delegate stream
\* for await (const msg of currentQuery): one assistant message with one block
StreamMsg(p, block) ==
  LET id == task[p].featureId
  IN /\ task[p].pc = "stream"
     /\ task[p].msgs < MaxMsgs
     /\ runningFeatures[id] # 0
     /\ contextFile' = IF task[p].kind = "analyze" THEN contextFile
                       ELSE writeToContextFile(contextFile, id)
     /\ task' = [disturb(task, p, id) EXCEPT
                   ![p].msgs = @ + 1]
     /\ UNCHANGED <<autoLoopRunning, runningFeatures, execution, controller,
                    fileReadable, featureList>>
     /\ UNCHANGED <<logVars, storeVars>>

\* after the stream loop: the execution is cleared, the features are loaded
\* again, passes = (status === "verified"), the result is returned;
\* analyzeProject has nothing left to await and returns
PassReturn(p, how) ==
  LET id == task[p].featureId
      passes == statusOf(id) = "verified"
  IN /\ execution' = cleared(execution, task[p].exec)
     /\ controller' = [controller EXCEPT ![p] = "none"]
     /\ IF task[p].kind = "analyze"
        THEN /\ task' = [task EXCEPT ![p] = Returned(task[p], TRUE)]
             /\ runningFeatures' = unregister(runningFeatures, id)
             /\ UNCHANGED contextFile
        ELSE /\ contextFile' = writeToContextFile(contextFile, id)
             /\ task' = [disturb(task, p, id) EXCEPT
                           ![p].pc = "passEnd",
                           ![p].passes = passes,
                           ![p].msgs = 0,
                           ![p].clean = @ /\ (how = "end" \/ p \notin Observed)]
             /\ UNCHANGED runningFeatures
     /\ UNCHANGED <<autoLoopRunning, fileReadable, featureList>>

\* the stream ends
StreamEnd(p) ==
  /\ task[p].pc = "stream"
  /\ PassReturn(p, "end")
  /\ UNCHANGED <<logVars, storeVars>>

\* if (!this.runningFeatures.has(feature.id)) break
StreamBreak(p) ==
  /\ task[p].pc = "stream"
  /\ task[p].msgs < MaxMsgs
  /\ runningFeatures[task[p].featureId] = 0
  /\ PassReturn(p, "break")
  /\ UNCHANGED <<logVars, storeVars>>

\* the stream raises AbortError: the pass returns passes: false
StreamAbort(p) ==
  /\ task[p].pc = "stream"
  /\ controller[p] = "aborted"
  /\ execution' = cleared(execution, task[p].exec)
  /\ controller' = [controller EXCEPT ![p] = "none"]
  /\ IF task[p].kind = "analyze"
     THEN /\ task' = [task EXCEPT ![p] = Returned(task[p], FALSE)]
          /\ runningFeatures' = unregister(runningFeatures, task[p].featureId)
     ELSE /\ task' = [task EXCEPT ![p].pc = "passEnd", ![p].passes = FALSE,
                                  ![p].msgs = 0,
                                  ![p].cancelled = TRUE,
                                  ![p].clean = p \notin Observed]
          /\ UNCHANGED runningFeatures
  /\ UNCHANGED <<autoLoopRunning, fileReadable, featureList, contextFile>>
  /\ UNCHANGED <<logVars, storeVars>>

\* the loop between two iterations
LoopTask(pc) == [IdleTask EXCEPT !.kind = "loop", !.pc = pc]

\* variant: an error in an iteration ends the loop
StreamErrorEndsLoop(p) ==
  /\ task[p].pc = "stream"
  /\ execution' = cleared(execution, task[p].exec)
  /\ controller' = [controller EXCEPT ![p] = "none"]
  /\ Fail(p, "delegate_error")
  /\ UNCHANGED <<autoLoopRunning, fileReadable, featureList, contextFile>>
  /\ UNCHANGED <<logVars, storeVars>>

\* the stream raises another error: the pass throws it on; an entry point
\* sends the error event and cleans up, the loop does so and sleeps 5000
StreamError(p) ==
  /\ task[p].pc = "stream"
  /\ execution' = cleared(execution, task[p].exec)
  /\ controller' = [controller EXCEPT ![p] = "none"]
  /\ IF task[p].kind = "loop"
     THEN /\ task' = [disturb(task, p, task[p].featureId) EXCEPT
                        ![p] = [LoopTask("loopSleep") EXCEPT !.errorEvent = TRUE]]
          /\ runningFeatures' = unregister(runningFeatures, task[p].featureId)
     ELSE Fail(p, "delegate_error")
  /\ UNCHANGED <<autoLoopRunning, fileReadable, featureList, contextFile>>
  /\ UNCHANGED <<logVars, storeVars>>

\* the delegate calls the UpdateFeatureStatus tool: updateFeatureStatus
ToolUpdate(p, featureId, status) ==
  /\ task[p].pc = "stream"
  /\ task[p].kind # "analyze"
  /\ controller[p] = "live"
  /\ featureList' = updatedList(featureId, status)
  /\ contextFile' = updatedFiles(contextFile, featureId, status)
  /\ task' = [disturb(task, p, featureId) EXCEPT
                ![p].toolStatus =
                   IF featureId = task[p].featureId /\ p \in Observed
                      /\ find(loadFeatures, featureId) # 0
                   THEN (IF status = "verified" THEN "verified" ELSE "other")
                   ELSE @]
  /\ UNCHANGED <<autoLoopRunning, runningFeatures, execution, controller,
                 fileReadable>>
  /\ UNCHANGED <<logVars, storeVars>>

\* ------------------------------------------------------------- completion
\* variant: the two statuses are swapped
implementStatusSwapped(passes) == IF passes THEN "backlog" ELSE "verified"

\* variant: a failed run leaves the feature in_progress
implementStatusInProgress(passes) == IF passes THEN "verified" ELSE "in_progress"

\* const newStatus = result.passes ? "verified" : "backlog"  (run, loop)
implementStatus(passes) == IF passes THEN "verified" ELSE "backlog"

\* variant: the final update of verify and resume is always in_progress
verifyStatusNever(passes) == "in_progress"

\* variant: a failed verification sends the feature back to backlog
verifyStatusBacklog(passes) == IF passes THEN "verified" ELSE "backlog"

\* const newStatus = result.passes ? "verified" : "in_progress"  (verify, resume)
verifyStatus(passes) == IF passes THEN "verified" ELSE "in_progress"

\* updateFeatureStatus(newStatus), the complete event, return, finally
Finish(p, status) ==
  LET id == task[p].featureId IN
  /\ featureList' = updatedList(id, status)
  /\ contextFile' = updatedFiles(contextFile, id, status)
  /\ runningFeatures' = unregister(runningFeatures, id)
  /\ task' = [disturb(task, p, id) EXCEPT ![p] = Returned(task[p], task[p].passes)]
  /\ UNCHANGED <<autoLoopRunning, execution, controller, fileReadable>>

RunFinish(p) ==
  /\ task[p].kind = "run" /\ task[p].pc = "passEnd"
  /\ Finish(p, implementStatus(task[p].passes))
  /\ UNCHANGED <<logVars, storeVars>>

VerifyFinish(p) ==
  /\ task[p].kind = "verify" /\ task[p].pc = "passEnd"
  /\ Finish(p, verifyStatus(task[p].passes))
  /\ UNCHANGED <<logVars, storeVars>>

\* variant: the retry does not look at the reloaded status
retryWantedAnyStatus(passes, attempts, status) ==
  ~passes /\ attempts < maxAttempts

\* variant: the attempts are compared with <=
retryWantedInclusive(passes, attempts, status) ==
  ~passes /\ attempts <= maxAttempts /\ status = "in_progress"

\* while (!finalResult.passes && attempts < maxAttempts), and inside it
\* if (updatedFeature && updatedFeature.status === "in_progress")
retryWanted(passes, attempts, status) ==
  ~passes /\ attempts < maxAttempts /\ status = "in_progress"

\* the retry loop of resumeFeature after a pass returned: another pass while
\* the result does not pass, attempts remain and the reloaded feature is
\* in_progress; otherwise the final status update and the return
ResumeSupervise(p) ==
  LET id == task[p].featureId
      retry == retryWanted(task[p].passes, task[p].attempts, statusOf(id))
      marked == writeToContextFile(contextFile, id)
  IN /\ task[p].kind = "resume" /\ task[p].pc = "passEnd"
     /\ IF ~retry
        THEN Finish(p, verifyStatus(task[p].passes))
        ELSE /\ IF runningFeatures[id] = 0
                THEN /\ contextFile' = marked
                     /\ Fail(p, "not_registered")
                     /\ UNCHANGED <<controller, execution>>
                ELSE /\ contextFile' = writeToContextFile(marked, id)
                     /\ controller' = [controller EXCEPT ![p] = "live"]
                     /\ execution' = attached(execution, runningFeatures[id], p, TRUE)
                     /\ task' = [disturb(task, p, id) EXCEPT
                                   ![p].exec = runningFeatures[id],
                                   ![p].pc = "stream",
                                   ![p].cancelled = FALSE,
                                   ![p].attempts = @ + 1,
                                   ![p].calls = @ + 1]
                     /\ UNCHANGED runningFeatures
             /\ UNCHANGED <<autoLoopRunning, fileReadable, featureList>>
     /\ UNCHANGED <<logVars, storeVars>>

\* ---------------------------------------------------------------- the loop
\* variant: the flag is not tested and a loop body is always launched
StartUnchecked(p) ==
  /\ Free(p)
  /\ autoLoopRunning' = TRUE
  /\ task' = [task EXCEPT ![p] = LoopTask("loopLoad")]
  /\ UNCHANGED <<runningFeatures, execution, controller, fileReadable,
                 featureList, contextFile>>
  /\ UNCHANGED <<logVars, storeVars>>

\* start: rejected while the flag is set; otherwise the flag is set and
\* runLoop runs up to its first await, the load of the feature list
Start(p) ==
  /\ Free(p)
  /\ IF autoLoopRunning
     THEN /\ task' = [task EXCEPT ![p] = Rejected("loop", NoFeature)]
          /\ UNCHANGED autoLoopRunning
     ELSE /\ autoLoopRunning' = TRUE
          /\ task' = [task EXCEPT ![p] = LoopTask("loopLoad")]
  /\ UNCHANGED <<runningFeatures, execution, controller, fileReadable,
                 featureList, contextFile>>
  /\ UNCHANGED <<logVars, storeVars>>

\* a sleep of the loop is over: while (this.autoLoopRunning), and past the
\* loop this.autoLoopRunning = false
LoopWake(p) ==
  /\ task[p].kind = "loop" /\ task[p].pc = "loopSleep"
  /\ IF autoLoopRunning
     THEN /\ task' = [task EXCEPT ![p].pc = "loopLoad"]
          /\ UNCHANGED autoLoopRunning
     ELSE /\ task' = [task EXCEPT ![p] = Returned(task[p], FALSE)]
          /\ autoLoopRunning' = FALSE
  /\ UNCHANGED <<runningFeatures, execution, controller, fileReadable,
                 featureList, contextFile>>
  /\ UNCHANGED <<logVars, storeVars>>

\* one iteration from the loaded list: nothing left -> complete event and the
\* loop ends; the selected feature already registered -> sleep(3000);
\* otherwise it is registered and implementFeature runs up to its sleep(500)
LoopIter(p) ==
  LET features == loadFeatures
      next == selectNextFeature(features)
      id == features[next].id
  IN /\ task[p].kind = "loop" /\ task[p].pc = "loopLoad"
     /\ IF next = 0
        THEN /\ task' = [task EXCEPT
                           ![p] = [Returned(task[p], FALSE) EXCEPT !.completeEvent = TRUE]]
             /\ autoLoopRunning' = FALSE
             /\ UNCHANGED <<runningFeatures, execution, controller, contextFile>>
        ELSE IF runningFeatures[id] # 0
        THEN /\ task' = [task EXCEPT ![p] = LoopTask("loopSleep")]
             /\ UNCHANGED <<autoLoopRunning, runningFeatures, execution,
                            controller, contextFile>>
        ELSE /\ runningFeatures' = register(runningFeatures, id, p)
             /\ BeginPass([task EXCEPT ![p] = [LoopTask("load") EXCEPT !.featureId = id]],
                          p, p, FALSE)
             /\ execution' = attached(execution, p, p, FALSE)
             /\ UNCHANGED autoLoopRunning
     /\ UNCHANGED <<fileReadable, featureList>>
     /\ UNCHANGED <<logVars, storeVars>>

\* the loop after implementFeature returned: status update, complete event,
\* cleanup, then sleep(3000) if the flag is still set
LoopFinish(p) ==
  LET id == task[p].featureId
      status == implementStatus(task[p].passes)
  IN /\ task[p].kind = "loop" /\ task[p].pc = "passEnd"
     /\ featureList' = updatedList(id, status)
     /\ contextFile' = updatedFiles(contextFile, id, status)
     /\ runningFeatures' = unregister(runningFeatures, id)
     /\ task' = [disturb(task, p, id) EXCEPT
                   ![p] = IF autoLoopRunning THEN LoopTask("loopSleep")
                          ELSE Returned(task[p], FALSE)]
     /\ UNCHANGED <<autoLoopRunning, execution, controller, fileReadable>>
     /\ UNCHANGED <<logVars, storeVars>>

\* variant: stop clears the flag and the registry and aborts nothing
StopNoAbort ==
  /\ autoLoopRunning' = FALSE
  /\ runningFeatures' = [id \in DOMAIN runningFeatures |-> 0]
  /\ task' = [p \in Procs |->
                IF InFlight(p) /\ p \in Observed
                THEN [task[p] EXCEPT !.clean = FALSE]
                ELSE task[p]]
  /\ autoLoopAbortController' = NoController
  /\ UNCHANGED <<controller, execution, fileReadable, featureList, contextFile>>
  /\ UNCHANGED <<logVars, stopFrame>>

\* stop: the flag is cleared, the controller of the loop is aborted if there
\* is one and set to null, the controller of every registered execution that
\* has one is aborted, the registry is cleared
Stop ==
  /\ autoLoopRunning' = FALSE
  /\ autoLoopAbortController' = NoController
  /\ controller' =
       [c \in Procs |->
          IF \E id \in DOMAIN runningFeatures :
               /\ runningFeatures[id] # 0
               /\ execution[runningFeatures[id]].abortController = c
          THEN "aborted" ELSE controller[c]]
  /\ runningFeatures' = [id \in DOMAIN runningFeatures |-> 0]
  /\ task' = [p \in Procs |->
                IF InFlight(p) /\ p \in Observed
                THEN [task[p] EXCEPT !.clean = FALSE]
                ELSE task[p]]
  /\ UNCHANGED <<execution, fileReadable, featureList, contextFile>>
  /\ UNCHANGED <<logVars, stopFrame>>

\* --------------------------------------------------------- analyzeProject
\* analyzeProject with runProjectAnalysis up to its stream; the id is
\* `project-analysis-${Date.now()}`
AnalyzeProject(p, analysisId) ==
  /\ Free(p)
  /\ IF runningFeatures[analysisId] # 0
     THEN /\ task' = [task EXCEPT ![p] = Rejected("analyze", analysisId)]
          /\ UNCHANGED <<runningFeatures, execution, controller>>
     ELSE /\ runningFeatures' = register(runningFeatures, analysisId, p)
          /\ execution' = attached(execution, p, p, TRUE)
          /\ controller' = [controller EXCEPT ![p] = "live"]
          /\ task' = [task EXCEPT
                        ![p] = [NewTask("analyze", analysisId) EXCEPT
                                  !.pc = "stream", !.exec = p, !.calls = 1]]
  /\ UNCHANGED <<autoLoopRunning, fileReadable, featureList, contextFile>>
  /\ UNCHANGED <<logVars, storeVars>>

\* ------------------------------------------------------------------- Spec
Next ==
  \/ \E p \in Procs, f \in RequestIds : RunFeature(p, f)
  \/ \E p \in Procs, f \in RequestIds : VerifyFeature(p, f)
  \/ \E p \in Procs, f \in RequestIds : ResumeFeature(p, f)
  \/ \E p \in Procs, a \in AnalysisIds : AnalyzeProject(p, a)
  \/ \E p \in Procs : Start(p)
  \/ Stop
  \/ \E p \in Procs : RunLoad(p)
  \/ \E p \in Procs : VerifyLoad(p)
  \/ \E p \in Procs : ResumeLoad(p)
  \/ \E p \in Procs : ImplementAction(p)
  \/ \E p \in Procs, b \in {"text", "tool_use"} : StreamMsg(p, b)
  \/ \E p \in Procs : StreamEnd(p)
  \/ \E p \in Procs : StreamBreak(p)
  \/ \E p \in Procs : StreamAbort(p)
  \/ \E p \in Procs : StreamError(p)
  \/ \E p \in Procs, f \in FeatureIds, s \in Statuses : ToolUpdate(p, f, s)
  \/ \E p \in Procs : RunFinish(p)
  \/ \E p \in Procs : VerifyFinish(p)
  \/ \E p \in Procs : ResumeSupervise(p)
  \/ \E p \in Procs : LoopWake(p)
  \/ \E p \in Procs : LoopIter(p)
  \/ \E p \in Procs : LoopFinish(p)

Spec == Init /\ [][Next]_vars

\* the timers of the loop fire: a sleep of the loop ends
SpecFair == Spec /\ \A p \in Procs : WF_vars(LoopWake(p))

\* ------------------------------------------------------------- SpecForeign
\* The entry points on a feature list whose records were written by another
\* program with a status the service does not know.
ForeignStatuses == {"done"}

InitForeign ==
  /\ autoLoopRunning = FALSE
  /\ autoLoopAbortController = NoController
  /\ runningFeatures = [id \in Ids |-> 0]
  /\ execution = [p \in Procs |-> NewExecution]
  /\ controller = [p \in Procs |-> "none"]
  /\ task = [p \in Procs |-> IdleTask]
  /\ fileReadable \in BOOLEAN
  /\ \E st \in [1..Len(Features) -> ForeignStatuses] :
       featureList = [i \in 1..Len(Features) |->
                        [id |-> Features[i], status |-> st[i]]]
  /\ contextFile = [f \in FeatureIds |-> FALSE]
  /\ logFile = NoFile
  /\ writer = [w \in Writers |-> IdleWriter]
  /\ StoreIdle

SpecForeign == InitForeign /\ [][Next]_vars

\* -------------------------------------------------------------- SpecResume
\* resumeFeature and its delegate, with a feature list file that another
\* program may remove or put back while the call is in flight.
FileChange(readable) ==
  /\ fileReadable # readable
  /\ fileReadable' = readable
  /\ UNCHANGED <<autoLoopRunning, runningFeatures, execution, controller,
                 task, featureList, contextFile>>
  /\ UNCHANGED <<logVars, storeVars>>

NextResume ==
  \/ \E p \in Procs, f \in RequestIds : ResumeFeature(p, f)
  \/ \E p \in Procs : ResumeLoad(p)
  \/ \E p \in Procs, b \in {"text", "tool_use"} : StreamMsg(p, b)
  \/ \E p \in Procs : StreamEnd(p)
  \/ \E p \in Procs : StreamBreak(p)
  \/ \E p \in Procs : StreamAbort(p)
  \/ \E p \in Procs : StreamError(p)
  \/ \E p \in Procs, f \in FeatureIds, s \in Statuses : ToolUpdate(p, f, s)
  \/ \E p \in Procs : ResumeSupervise(p)
  \/ Stop
  \/ \E r \in BOOLEAN : FileChange(r)

SpecResume == Init /\ [][NextResume]_vars

\* ---------------------------------------------------------------- SpecSolo
\* One call at a time: every entry point and every step of Spec, taken by the
\* call in the observed slot alone, with stop(). No other call is in flight,
\* so what a call does by itself is followed here, and what calls do to each
\* other is followed in Spec.
NextSolo ==
  \/ \E p \in Observed, f \in RequestIds : RunFeature(p, f)
  \/ \E p \in Observed, f \in RequestIds : VerifyFeature(p, f)
  \/ \E p \in Observed, f \in RequestIds : ResumeFeature(p, f)
  \/ \E p \in Observed, a \in AnalysisIds : AnalyzeProject(p, a)
  \/ \E p \in Observed : Start(p)
  \/ Stop
  \/ \E p \in Observed : RunLoad(p)
  \/ \E p \in Observed : VerifyLoad(p)
  \/ \E p \in Observed : ResumeLoad(p)
  \/ \E p \in Observed : ImplementAction(p)
  \/ \E p \in Observed, b \in {"text", "tool_use"} : StreamMsg(p, b)
  \/ \E p \in Observed : StreamEnd(p)
  \/ \E p \in Observed : StreamBreak(p)
  \/ \E p \in Observed : StreamAbort(p)
  \/ \E p \in Observed : StreamError(p)
  \/ \E p \in Observed, f \in FeatureIds, s \in Statuses : ToolUpdate(p, f, s)
  \/ \E p \in Observed : RunFinish(p)
  \/ \E p \in Observed : VerifyFinish(p)
  \/ \E p \in Observed : ResumeSupervise(p)
  \/ \E p \in Observed : LoopWake(p)
  \/ \E p \in Observed : LoopIter(p)
  \/ \E p \in Observed : LoopFinish(p)

SpecSolo == Init /\ [][NextSolo]_vars

\* the timers of the loop fire: a sleep of the loop ends
SpecSoloFair == SpecSolo /\ \A p \in Observed : WF_vars(LoopWake(p))

\* one call at a time on a feature list written by another program
SpecSoloForeign == InitForeign /\ [][NextSolo]_vars

\* one resumeFeature call at a time, with stop() and a feature list file
\* that another program may remove or put back
NextSoloResume ==
  \/ \E p \in Observed, f \in RequestIds : ResumeFeature(p, f)
  \/ \E p \in Observed : ResumeLoad(p)
  \/ \E p \in Observed, b \in {"text", "tool_use"} : StreamMsg(p, b)
  \/ \E p \in Observed : StreamEnd(p)
  \/ \E p \in Observed : StreamBreak(p)
  \/ \E p \in Observed : StreamAbort(p)
  \/ \E p \in Observed : StreamError(p)
  \/ \E p \in Observed, f \in FeatureIds, s \in Statuses : ToolUpdate(p, f, s)
  \/ \E p \in Observed : ResumeSupervise(p)
  \/ Stop
  \/ \E r \in BOOLEAN : FileChange(r)

SpecSoloResume == Init /\ [][NextSoloResume]_vars

\* --------------------------------------------------------------- SpecLoop
\* The loop and direct runs over a feature list of NLoopFeatures records.
LoopFeatures == SubSeq(<<"f1", "f2", "f3", "f4">>, 1, NLoopFeatures)

LoopFeatureIds == {LoopFeatures[i] : i \in 1..Len(LoopFeatures)}

InitLoop ==
  /\ autoLoopRunning = FALSE
  /\ autoLoopAbortController = NoController
  /\ runningFeatures = [id \in LoopFeatureIds |-> 0]
  /\ execution = [p \in Procs |-> NewExecution]
  /\ controller = [p \in Procs |-> "none"]
  /\ task = [p \in Procs |-> IdleTask]
  /\ fileReadable = TRUE
  /\ \E st \in [1..Len(LoopFeatures) -> Statuses] :
       featureList = [i \in 1..Len(LoopFeatures) |->
                        [id |-> LoopFeatures[i], status |-> st[i]]]
  /\ contextFile = [f \in LoopFeatureIds |-> FALSE]
  /\ logFile = NoFile
  /\ writer = [w \in Writers |-> IdleWriter]
  /\ StoreIdle

NextLoop ==
  \/ \E p \in Procs : Start(p)
  \/ Stop
  \/ \E p \in Procs : LoopWake(p)
  \/ \E p \in Procs : LoopIter(p)
  \/ \E p \in Procs : LoopFinish(p)
  \/ \E p \in Procs, f \in LoopFeatureIds : RunFeature(p, f)
  \/ \E p \in Procs : RunLoad(p)
  \/ \E p \in Procs : RunFinish(p)
  \/ \E p \in Procs : ImplementAction(p)
  \/ \E p \in Procs : StreamEnd(p)
  \/ \E p \in Procs : StreamAbort(p)
  \/ \E p \in Procs : StreamError(p)
  \/ \E p \in Procs, f \in LoopFeatureIds, s \in Statuses : ToolUpdate(p, f, s)

SpecLoop == InitLoop /\ [][NextLoop]_vars

\* ---------------------------------------------------------------- SpecLog
\* The content of one context file, that of the first feature, under the
\* writeToContextFile calls of the executions of that feature and the status
\* updates of the feature.
LogFeature == Features[1]

InitLog ==
  /\ autoLoopRunning = FALSE
  /\ autoLoopAbortController = NoController
  /\ runningFeatures = [id \in Ids |-> 0]
  /\ execution = [p \in Procs |-> NewExecution]
  /\ controller = [p \in Procs |-> "none"]
  /\ task = [p \in Procs |-> IdleTask]
  /\ fileReadable = TRUE
  /\ \E st \in [1..Len(Features) -> Statuses] :
       featureList = [i \in 1..Len(Features) |->
                        [id |-> Features[i], status |-> st[i]]]
  /\ contextFile = [f \in FeatureIds |-> FALSE]
  /\ logFile = NoFile
  /\ writer = [w \in Writers |-> IdleWriter]
  /\ StoreIdle

\* writeToContextFile up to the await of fs.readFile: the read returns the
\* content of the file, or raises (ENOENT when there is no file, any other
\* error when readable is FALSE)
LogRead(w, content, readable) ==
  /\ writer[w].pc = "idle"
  /\ Len(logFile.content) < MaxLogLen
  /\ writer' = [writer EXCEPT ![w] =
                  [pc |-> "write",
                   readOk |-> logFile.exists /\ readable,
                   existing |-> IF logFile.exists /\ readable
                                THEN logFile.content ELSE <<>>,
                   content |-> <<content>>]]
  /\ UNCHANGED <<logFile, autoLoopRunning, runningFeatures, execution,
                 controller, task, fileReadable, featureList, contextFile,
                 storeVars>>

\* writeToContextFile after the read: fs.writeFile(existing + content), or in
\* the catch fs.writeFile(content)
LogWrite(w) ==
  /\ writer[w].pc = "write"
  /\ logFile' = [exists |-> TRUE,
                 content |-> IF writer[w].readOk
                             THEN writer[w].existing \o writer[w].content
                             ELSE writer[w].content]
  /\ writer' = [writer EXCEPT ![w] = IdleWriter]
  /\ UNCHANGED <<autoLoopRunning, runningFeatures, execution, controller,
                 task, fileReadable, featureList, contextFile, storeVars>>

\* updateFeatureStatus of the feature: the record is rewritten, and on
\* verified the context file is unlinked
LogUpdateFeatureStatus(status) ==
  /\ featureList' = updatedList(LogFeature, status)
  /\ logFile' = IF status = "verified" THEN NoFile ELSE logFile
  /\ UNCHANGED <<writer, autoLoopRunning, runningFeatures, execution,
                 controller, task, fileReadable, contextFile, storeVars>>

NextLog ==
  \/ \E w \in Writers, c \in Texts, r \in BOOLEAN : LogRead(w, c, r)
  \/ \E w \in Writers : LogWrite(w)
  \/ \E s \in Statuses : LogUpdateFeatureStatus(s)

SpecLog == InitLog /\ [][NextLog]_vars

\* --------------------------------------------------------------- SpecStore
\* updateFeatureStatus on the records of feature_list.json, field by field.
\* A record is a function from the names of the fields it has to their
\* values; a file that cannot be read or parsed has readable = FALSE.
StoreIds == {"f1", "f2"}

\* the fields updateFeatureStatus writes
StableFields == {"id", "category", "description", "steps", "status"}

NoFields == [k \in {} |-> ""]

OptionalField(k, values) == {NoFields} \cup {k :> v : v \in values}

\* the records the file may hold: id and category may be missing, and a
\* delegate agent may have attached a further field
StoredRecords ==
  {id @@ category @@ notes @@ description @@ ("steps" :> "s1") @@ status :
     id \in OptionalField("id", StoreIds),
     category \in OptionalField("category", {"c1"}),
     notes \in OptionalField("notes", {"n1"}),
     description \in {"description" :> v : v \in {"d1"}},
     status \in {"status" :> v : v \in Statuses}}

\* variant: the generated id leaves out the index
GeneratedIdNoIndex(index, t) == "feature-" \o ToString(t)

\* `feature-${index}-${Date.now()}`
GeneratedId(index, t) == "feature-" \o ToString(index) \o "-" \o ToString(t)

GeneratedIds == {GeneratedId(i, t) : i \in 0..(MaxRecords - 1), t \in 0..MaxClock}

\* the ids updateFeatureStatus is called with
UpdateIds == StoreIds \cup {"fx"} \cup GeneratedIds

\* loadFeatures on the file at time t: [] when the file cannot be read or
\* parsed, else the records, each without an id given a generated one
loadStoredFeatures(file, t) ==
  IF ~file.readable
  THEN <<>>
  ELSE [i \in 1..Len(file.records) |->
          IF "id" \in DOMAIN file.records[i]
          THEN file.records[i]
          ELSE ("id" :> GeneratedId(i - 1, t)) @@ file.records[i]]

\* variant: a feature is found whatever the id
findFeatureOrFirst(features, featureId) ==
  IF \E i \in 1..Len(features) : features[i].id = featureId
  THEN CHOOSE i \in 1..Len(features) :
         /\ features[i].id = featureId
         /\ \A j \in 1..(i - 1) : features[j].id # featureId
  ELSE 1

\* features.find((f) => f.id === featureId): the position of the first
\* record with the id, 0 for undefined
findFeature(features, featureId) ==
  IF \E i \in 1..Len(features) : features[i].id = featureId
  THEN CHOOSE i \in 1..Len(features) :
         /\ features[i].id = featureId
         /\ \A j \in 1..(i - 1) : features[j].id # featureId
  ELSE 0

\* variant: the records are written as they were loaded
toSaveAllFields(features) == features

\* toSave: each record with the five fields; JSON.stringify leaves out those
\* that are undefined
toSave(features) ==
  [i \in 1..Len(features) |->
     [k \in DOMAIN features[i] \cap StableFields |-> features[i][k]]]

InitStore ==
  /\ autoLoopRunning = FALSE
  /\ autoLoopAbortController = NoController
  /\ runningFeatures = [id \in Ids |-> 0]
  /\ execution = [p \in Procs |-> NewExecution]
  /\ controller = [p \in Procs |-> "none"]
  /\ task = [p \in Procs |-> IdleTask]
  /\ fileReadable = TRUE
  /\ featureList = [i \in 1..Len(Features) |->
                      [id |-> Features[i], status |-> "backlog"]]
  /\ contextFile = [f \in FeatureIds |-> FALSE]
  /\ logFile = NoFile
  /\ writer = [w \in Writers |-> IdleWriter]
  /\ \E readable \in BOOLEAN, n \in 0..MaxRecords :
       \E records \in [1..n -> StoredRecords] :
         /\ readable \/ n = 0
         /\ storeFile = [readable |-> readable, records |-> records]
  /\ storeLogs \in SUBSET StoreIds
  /\ now = 0
  /\ lastUpdate = NoUpdate
  /\ updater = [u \in Updaters |-> IdleUpdater]
  /\ SideIdle

\* updateFeatureStatus(featureId, status, projectPath)
StoreUpdateFeatureStatus(featureId, status) ==
  LET features == loadStoredFeatures(storeFile, now)
      i == findFeature(features, featureId)
  IN /\ IF i = 0
        THEN /\ UNCHANGED <<storeFile, storeLogs>>
             /\ lastUpdate' = [id |-> featureId, status |-> status,
                               outcome |-> "notFound", answer |-> "none"]
        ELSE /\ storeFile' =
                  [readable |-> TRUE,
                   records |-> toSave([features EXCEPT
                                         ![i] = ("status" :> status) @@ @])]
             /\ storeLogs' = IF status = "verified"
                             THEN storeLogs \ {featureId}
                             ELSE storeLogs
             /\ lastUpdate' = [id |-> featureId, status |-> status,
                               outcome |-> "written", answer |-> "none"]
     /\ UNCHANGED <<now, updater, logVars, sideVars, autoLoopRunning,
                    autoLoopAbortController, runningFeatures,
                    execution, controller, task, fileReadable, featureList,
                    contextFile>>

\* Date.now() moves on
StoreTick ==
  /\ now < MaxClock
  /\ now' = now + 1
  /\ UNCHANGED <<storeFile, storeLogs, lastUpdate, updater, logVars, sideVars,
                 autoLoopRunning,
                    autoLoopAbortController, runningFeatures, execution, controller, task,
                 fileReadable, featureList, contextFile>>

NextStore ==
  \/ \E f \in UpdateIds, s \in Statuses : StoreUpdateFeatureStatus(f, s)
  \/ StoreTick

SpecStore == InitStore /\ [][NextStore]_vars

\* the handler of the UpdateFeatureStatus tool: the success text when
\* updateFeatureStatus returned, the failure text when it raised
toolAnswer(outcome) ==
  IF outcome = "raised" THEN "failed" ELSE "success"

\* the UpdateFeatureStatus tool called by a delegate: updateFeatureStatus in
\* a try, the answer returned to the delegate; writeOk: fs.writeFile succeeds
UpdateFeatureStatusTool(featureId, status, writeOk) ==
  LET features == loadStoredFeatures(storeFile, now)
      i == findFeature(features, featureId)
      outcome == IF i = 0 THEN "notFound"
                 ELSE IF writeOk THEN "written" ELSE "raised"
  IN /\ IF outcome = "written"
        THEN /\ storeFile' =
                  [readable |-> TRUE,
                   records |-> toSave([features EXCEPT
                                         ![i] = ("status" :> status) @@ @])]
             /\ storeLogs' = IF status = "verified"
                             THEN storeLogs \ {featureId}
                             ELSE storeLogs
        ELSE UNCHANGED <<storeFile, storeLogs>>
     /\ lastUpdate' = [id |-> featureId, status |-> status,
                       outcome |-> outcome, answer |-> toolAnswer(outcome)]
     /\ UNCHANGED <<now, updater, logVars, sideVars, autoLoopRunning,
                    autoLoopAbortController,
                    runningFeatures, execution, controller, task, fileReadable,
                    featureList, contextFile>>

\* the store under the tool calls of the delegates
NextTool ==
  \/ \E f \in UpdateIds, s \in Statuses, w \in BOOLEAN :
       UpdateFeatureStatusTool(f, s, w)
  \/ StoreTick

\* the stores of InitStore, every stored id with its context file
InitTool == InitStore /\ storeLogs = StoreIds

SpecTool == InitTool /\ [][NextTool]_vars

\* ------------------------------------------------------------- SpecOverlap
\* updateFeatureStatus calls that overlap: the call of an execution is taken
\* in two steps, up to the end of the read of loadFeatures, and from there
\* to the end.  Execution u is registered under the id OwnFeature[u]; it
\* calls updateFeatureStatus itself for that id ("engine"), and its delegate
\* calls it through the UpdateFeatureStatus tool for the id the delegate
\* gives ("tool").
OverlapFeatures == <<"f1", "f2", "f3">>

OwnFeature == [u \in Updaters |-> OverlapFeatures[u]]

OverlapIds == {OverlapFeatures[u] : u \in Updaters}

fullRecord(id, status) ==
  ("id" :> id) @@ ("category" :> "c1") @@ ("description" :> "d1")
    @@ ("steps" :> "s1") @@ ("status" :> status)

InitOverlap ==
  /\ autoLoopRunning = FALSE
  /\ autoLoopAbortController = NoController
  /\ runningFeatures = [id \in Ids |-> 0]
  /\ execution = [p \in Procs |-> NewExecution]
  /\ controller = [p \in Procs |-> "none"]
  /\ task = [p \in Procs |-> IdleTask]
  /\ fileReadable = TRUE
  /\ featureList = [i \in 1..Len(Features) |->
                      [id |-> Features[i], status |-> "backlog"]]
  /\ contextFile = [f \in FeatureIds |-> FALSE]
  /\ logFile = NoFile
  /\ writer = [w \in Writers |-> IdleWriter]
  /\ \E st \in [Updaters -> Statuses] :
       storeFile = [readable |-> TRUE,
                    records |-> [u \in Updaters |->
                                   fullRecord(OwnFeature[u], st[u])]]
  /\ storeLogs = OverlapIds
  /\ now = 0
  /\ lastUpdate = NoUpdate
  /\ updater = [u \in Updaters |-> IdleUpdater]
  /\ SideIdle

\* updateFeatureStatus up to the end of the read: const features = await
\* this.loadFeatures(projectPath)
UpdateLoad(u, origin, featureId, status) ==
  /\ updater[u].pc = "idle"
  /\ origin = "engine" => featureId = OwnFeature[u]
  /\ updater' = [updater EXCEPT ![u] =
                   [pc |-> "loaded", origin |-> origin, id |-> featureId,
                    status |-> status,
                    features |-> loadStoredFeatures(storeFile, now)]]
  /\ UNCHANGED <<storeFile, storeLogs, now, lastUpdate, logVars, sideVars,
                 autoLoopRunning,
                    autoLoopAbortController, runningFeatures, execution, controller, task,
                 fileReadable, featureList, contextFile>>

\* updateFeatureStatus from the loaded list on: find, set the status, write
\* the file, delete the context file on verified
UpdateWrite(u) ==
  LET features == updater[u].features
      i == findFeature(features, updater[u].id)
  IN /\ updater[u].pc = "loaded"
     /\ IF i = 0
        THEN UNCHANGED <<storeFile, storeLogs>>
        ELSE /\ storeFile' =
                  [readable |-> TRUE,
                   records |-> toSave([features EXCEPT
                                         ![i] = ("status" :> updater[u].status) @@ @])]
             /\ storeLogs' = IF updater[u].status = "verified"
                             THEN storeLogs \ {updater[u].id}
                             ELSE storeLogs
     /\ updater' = [updater EXCEPT ![u].pc = "done", ![u].features = <<>>]
     /\ UNCHANGED <<now, lastUpdate, logVars, sideVars, autoLoopRunning,
                    autoLoopAbortController, runningFeatures,
                    execution, controller, task, fileReadable, featureList,
                    contextFile>>

NextOverlap ==
  \/ \E u \in Updaters, o \in {"engine", "tool"}, f \in OverlapIds, s \in Statuses :
       UpdateLoad(u, o, f, s)
  \/ \E u \in Updaters : UpdateWrite(u)

SpecOverlap == InitOverlap /\ [][NextOverlap]_vars

\* -------------------------------------------------------------- SpecBlocks
\* The stream loops of implementFeature (slot 1) and resumeFeatureWithContext
\* (the other slots), one step for each await of the loop: the wait for the
\* next message of the delegate, and the writeToContextFile of each content
\* block of the message.  Every slot has its execution registered under its
\* own feature id and its query open.  stop() is the Stop of the service; a
\* later request for an id that is no longer registered registers it again.
BlockFeatures == <<"f1", "f2", "f3", "f4">>

BlockIds == {BlockFeatures[p] : p \in Procs}

BlockKind(p) == IF p = 1 THEN "implement" ELSE "resume"

\* message.content of an assistant message
Messages == UNION {[1..n -> BlockTypes] : n \in 1..MaxBlocks}

\* the execution object of a call the specification does not follow beyond
\* its registration
OtherCall == NProcs + 1

\* variant: the entry is never missed
hasAlways(reg, id) == TRUE

\* this.runningFeatures.has(id)
has(reg, id) == reg[id] # 0

InitBlocks ==
  /\ autoLoopRunning \in BOOLEAN
  /\ autoLoopAbortController = NoController
  /\ runningFeatures = [id \in BlockIds |->
                          CHOOSE p \in Procs : BlockFeatures[p] = id]
  /\ execution = [o \in Procs \cup {OtherCall} |->
                    IF o \in Procs THEN [abortController |-> o, query |-> TRUE]
                    ELSE NewExecution]
  /\ controller = [p \in Procs |-> "live"]
  /\ task = [p \in Procs |-> IdleTask]
  /\ fileReadable = TRUE
  /\ featureList = [i \in 1..Len(Features) |->
                      [id |-> Features[i], status |-> "in_progress"]]
  /\ contextFile = [f \in FeatureIds |-> FALSE]
  /\ logFile = NoFile
  /\ writer = [w \in Writers |-> IdleWriter]
  /\ storeFile = [readable |-> TRUE, records |-> <<>>]
  /\ storeLogs = {}
  /\ now = 0
  /\ lastUpdate = NoUpdate
  /\ updater = [u \in Updaters |-> IdleUpdater]
  /\ stream = [p \in Procs |->
                 [IdleStream EXCEPT !.kind = BlockKind(p),
                                    !.featureId = BlockFeatures[p],
                                    !.pc = "next"]]
  /\ processEnv = [k \in EnvKeys |-> Absent]
  /\ firstEnv = [k \in EnvKeys |-> Absent]
  /\ provider = [q \in Queries |-> IdleQuery]

\* what a step of a stream loop leaves alone
blocksFrame ==
  <<autoLoopRunning, autoLoopAbortController, execution, controller, task,
    fileReadable, featureList,
    contextFile, logVars, storeFile, storeLogs, now, lastUpdate, updater,
    processEnv, firstEnv, provider>>

\* for await (const msg of currentQuery): the next message arrives;
\* if (!this.runningFeatures.has(feature.id)) break; otherwise the loop over
\* msg.message.content starts
StreamTake(p, content) ==
  /\ stream[p].pc = "next"
  /\ stream[p].msgs < MaxTaken
  /\ stream' = [stream EXCEPT ![p] =
                  IF ~has(runningFeatures, stream[p].featureId)
                  THEN [@ EXCEPT !.pc = "broke"]
                  ELSE [@ EXCEPT !.pc = "blocks", !.blocks = content,
                                 !.msgs = @ + 1]]
  /\ UNCHANGED <<runningFeatures, blocksFrame>>

\* the first tool_use block of implementFeature: "Starting code
\* implementation..." is written to the context file and sent as progress
StreamStartMsg(p) ==
  /\ stream[p].pc = "blocks"
  /\ Head(stream[p].blocks) = "tool_use"
  /\ stream[p].kind = "implement" /\ ~stream[p].hasStartedToolUse
  /\ stream' = [stream EXCEPT ![p].hasStartedToolUse = TRUE,
                              ![p].events = Append(@, "start")]
  /\ UNCHANGED <<runningFeatures, blocksFrame>>

\* one content block: await writeToContextFile(block), then sendToRenderer
\* (auto_mode_progress for a text block, auto_mode_tool for a tool_use block)
StreamBlock(p) ==
  /\ stream[p].pc = "blocks"
  /\ ~( /\ Head(stream[p].blocks) = "tool_use"
        /\ stream[p].kind = "implement" /\ ~stream[p].hasStartedToolUse )
  /\ stream' = [stream EXCEPT
                  ![p].events = Append(@, Head(stream[p].blocks)),
                  ![p].blocks = Tail(@),
                  ![p].pc = IF Tail(stream[p].blocks) = <<>>
                            THEN "next" ELSE "blocks"]
  /\ UNCHANGED <<runningFeatures, blocksFrame>>

\* the stream ends, or raises (AbortError after an abort, or another error)
StreamOver(p) ==
  /\ stream[p].pc = "next"
  /\ stream' = [stream EXCEPT ![p].pc = "over"]
  /\ UNCHANGED <<runningFeatures, blocksFrame>>

\* a later runFeature / verifyFeature / resumeFeature request for an id with
\* no entry: the has() check passes and the id is registered
Reregister(id) ==
  /\ ~has(runningFeatures, id)
  /\ runningFeatures' = register(runningFeatures, id, OtherCall)
  /\ UNCHANGED <<stream, blocksFrame>>

NextBlocks ==
  \/ \E p \in Procs, c \in Messages : StreamTake(p, c)
  \/ \E p \in Procs : StreamStartMsg(p)
  \/ \E p \in Procs : StreamBlock(p)
  \/ \E p \in Procs : StreamOver(p)
  \/ \E id \in BlockIds : Reregister(id)
  \/ Stop

SpecBlocks == InitBlocks /\ [][NextBlocks]_vars

\* ---------------------------------------------------------------- SpecLive
\* The loop alone on a list of NLoopFeatures records with ids: start() is
\* the only request, and the delegate of every run sets the feature it was
\* given to verified through the tool and then ends its stream.
DelegateVerifies(p) ==
  /\ task[p].kind = "loop"
  /\ statusOf(task[p].featureId) # "verified"
  /\ ToolUpdate(p, task[p].featureId, "verified")

DelegateEnds(p) ==
  /\ task[p].kind = "loop"
  /\ statusOf(task[p].featureId) = "verified"
  /\ StreamEnd(p)

\* the lists of InitLoop that leave the loop something to do
InitLive ==
  /\ InitLoop
  /\ \E i \in 1..Len(featureList) : featureList[i].status # "verified"

NextLive ==
  \/ \E p \in Procs : Start(p)
  \/ \E p \in Procs : LoopIter(p)
  \/ \E p \in Procs : ImplementAction(p)
  \/ \E p \in Procs, b \in BlockTypes : StreamMsg(p, b)
  \/ \E p \in Procs : DelegateVerifies(p)
  \/ \E p \in Procs : DelegateEnds(p)
  \/ \E p \in Procs : LoopFinish(p)
  \/ \E p \in Procs : LoopWake(p)

\* the timers fire, the file operations complete and the delegate does what
\* is assumed of it: every step of a loop body that can be taken is taken
SpecLive ==
  /\ InitLive
  /\ [][NextLive]_vars
  /\ \A p \in Procs :
       /\ WF_vars(LoopIter(p))
       /\ WF_vars(ImplementAction(p))
       /\ WF_vars(DelegateVerifies(p))
       /\ WF_vars(DelegateEnds(p))
       /\ WF_vars(LoopFinish(p))
       /\ WF_vars(LoopWake(p))

\* ----------------------------------------------------------------- SpecEnv
\* ClaudeProvider.executeQuery and process.env.  A call is taken in two
\* steps: from the return of getSettingsEnv to the first wait for a message
\* of the stream, and the finally block that follows the end of the stream,
\* an error or the return of the generator.
EnvValues == {Absent, "", "v0"}

SettingValues == {"s1"}

\* the env object of ~/.claude/settings.json; the empty one also stands for
\* a file without one (getSettingsEnv returns null)
SettingsEnvs == UNION {[K -> SettingValues] : K \in SUBSET EnvKeys}

\* getInMemoryApiKey(): the stored key, or undefined
MemoryKeys == {Absent, "m1"}

\* !value of JavaScript for a variable of process.env
falsy(value) == value \in {Absent, ""}

\* the loop over Object.entries(settingsEnv): the value that is there is
\* saved, the key is noted, the variable is set
settingsApplied(env, settings) ==
  [env |-> [k \in EnvKeys |->
              IF k \in DOMAIN settings THEN settings[k] ELSE env[k]],
   originalEnv |-> [k \in EnvKeys |->
                      IF k \in DOMAIN settings THEN env[k] ELSE Absent],
   envKeysToRestore |-> DOMAIN settings]

\* ANTHROPIC_AUTH_TOKEN of the settings is mapped to ANTHROPIC_API_KEY when
\* the settings give no ANTHROPIC_API_KEY
tokenMapped(c, settings) ==
  IF /\ "ANTHROPIC_AUTH_TOKEN" \in DOMAIN settings
     /\ ~falsy(settings["ANTHROPIC_AUTH_TOKEN"])
     /\ ( "ANTHROPIC_API_KEY" \notin DOMAIN settings
          \/ falsy(settings["ANTHROPIC_API_KEY"]) )
  THEN [env |-> [c.env EXCEPT !["ANTHROPIC_API_KEY"] =
                                 settings["ANTHROPIC_AUTH_TOKEN"]],
        originalEnv |->
          IF c.env["ANTHROPIC_API_KEY"] # Absent
          THEN [c.originalEnv EXCEPT !["ANTHROPIC_API_KEY"] =
                                        c.env["ANTHROPIC_API_KEY"]]
          ELSE c.originalEnv,
        envKeysToRestore |-> c.envKeysToRestore \cup {"ANTHROPIC_API_KEY"}]
  ELSE c

\* no ANTHROPIC_API_KEY yet: the key of the in-memory storage, if there is one
memoryKeyApplied(c, memoryKey) ==
  IF falsy(c.env["ANTHROPIC_API_KEY"]) /\ ~falsy(memoryKey)
  THEN [env |-> [c.env EXCEPT !["ANTHROPIC_API_KEY"] = memoryKey],
        originalEnv |-> [c.originalEnv EXCEPT !["ANTHROPIC_API_KEY"] =
                                                 c.env["ANTHROPIC_API_KEY"]],
        envKeysToRestore |-> c.envKeysToRestore \cup {"ANTHROPIC_API_KEY"}]
  ELSE c

\* the finally block: every noted key gets its saved value back, or is
\* deleted when none was saved (envKeysToRestore is kept as a set: a key
\* noted twice is given the same saved value twice)
restored(env, q) ==
  [k \in EnvKeys |->
     IF k \in q.envKeysToRestore THEN q.originalEnv[k] ELSE env[k]]

InitEnv ==
  /\ autoLoopRunning = FALSE
  /\ autoLoopAbortController = NoController
  /\ runningFeatures = [id \in Ids |-> 0]
  /\ execution = [p \in Procs |-> NewExecution]
  /\ controller = [p \in Procs |-> "none"]
  /\ task = [p \in Procs |-> IdleTask]
  /\ fileReadable = TRUE
  /\ featureList = [i \in 1..Len(Features) |->
                      [id |-> Features[i], status |-> "backlog"]]
  /\ contextFile = [f \in FeatureIds |-> FALSE]
  /\ logFile = NoFile
  /\ writer = [w \in Writers |-> IdleWriter]
  /\ storeFile = [readable |-> TRUE, records |-> <<>>]
  /\ storeLogs = {}
  /\ now = 0
  /\ lastUpdate = NoUpdate
  /\ updater = [u \in Updaters |-> IdleUpdater]
  /\ stream = [p \in Procs |-> IdleStream]
  /\ processEnv \in [EnvKeys -> EnvValues]
  /\ firstEnv = processEnv
  /\ provider = [q \in Queries |-> IdleQuery]

\* what a step of executeQuery leaves alone
envFrame ==
  <<autoLoopRunning, autoLoopAbortController, runningFeatures, execution,
    controller, task, fileReadable, featureList, contextFile, logVars,
    storeFile, storeLogs, now, lastUpdate, updater, stream, firstEnv>>

\* executeQuery from the return of getSettingsEnv to the stream
ExecuteQuery(q, settings, memoryKey) ==
  LET c == memoryKeyApplied(
             tokenMapped(settingsApplied(processEnv, settings), settings),
             memoryKey)
  IN /\ provider[q].pc = "idle"
     /\ processEnv' = c.env
     /\ provider' = [provider EXCEPT ![q] =
                       [pc |-> "streaming", originalEnv |-> c.originalEnv,
                        envKeysToRestore |-> c.envKeysToRestore]]
     /\ UNCHANGED envFrame

\* the stream ends, raises or is returned from: finally
QueryFinish(q) ==
  /\ provider[q].pc = "streaming"
  /\ processEnv' = restored(processEnv, provider[q])
  /\ provider' = [provider EXCEPT ![q].pc = "done"]
  /\ UNCHANGED envFrame

NextEnv ==
  \/ \E q \in Queries, s \in SettingsEnvs, m \in MemoryKeys :
       ExecuteQuery(q, s, m)
  \/ \E q \in Queries : QueryFinish(q)

SpecEnv == InitEnv /\ [][NextEnv]_vars

\* ================================================================= claims
\* C1: a runFeature, verifyFeature or resumeFeature request for an id that is
\* registered fails with the already-running error before any delegate call,
\* and leaves the feature list, the context files, the registry and the
\* registered execution as they were.
C1_RegisteredIdRejected ==
  [][\A p \in Procs, f \in RequestIds :
       ( /\ runningFeatures[f] # 0
         /\ RunFeature(p, f) \/ VerifyFeature(p, f) \/ ResumeFeature(p, f) )
       => /\ task'[p].pc = "idle"
          /\ task'[p].outcome = "raised"
          /\ task'[p].error = "already_running"
          /\ task'[p].calls = 0
          /\ featureList' = featureList
          /\ contextFile' = contextFile
          /\ runningFeatures' = runningFeatures
          /\ execution' = execution
          /\ controller' = controller]_vars

C1_Witness ==
  \E p \in Procs, q \in Procs :
    /\ task[p].kind \in {"run", "verify", "resume"}
    /\ task[p].error = "already_running"
    /\ InFlight(q) /\ task[q].featureId = task[p].featureId
    /\ runningFeatures[task[p].featureId] = q

\* C2 (as claimed): at most one state-machine invocation is in flight for a
\* feature id at any instant.
InStateMachine(p) ==
  /\ task[p].kind \in {"run", "verify", "resume", "loop"}
  /\ task[p].pc \in {"sleep500", "stream"}

C2_OneInvocationPerFeature ==
  \A f \in RequestIds :
    Cardinality({p \in Procs : InStateMachine(p) /\ task[p].featureId = f}) <= 1

\* C3 (as claimed): when stop() returns the flag is false, the registry is
\* empty and every execution that was registered has had its token triggered.
C3_StopTriggersEveryExecution ==
  [][Stop =>
       /\ autoLoopRunning' = FALSE
       /\ \A id \in Ids : runningFeatures'[id] = 0
       /\ \A id \in Ids : runningFeatures[id] # 0 =>
            /\ execution[runningFeatures[id]].abortController # 0
            /\ controller'[execution[runningFeatures[id]].abortController]
                 = "aborted"]_vars

\* C3 (amended): when stop() returns the flag is false, the registry is empty
\* and the token of every registered execution that held one has been
\* triggered; no other token is.
C3_StopTriggersHeldTokens ==
  [][Stop =>
       /\ autoLoopRunning' = FALSE
       /\ \A id \in Ids : runningFeatures'[id] = 0
       /\ \A c \in Procs :
            IF \E id \in Ids : /\ runningFeatures[id] # 0
                               /\ execution[runningFeatures[id]].abortController = c
            THEN controller'[c] = "aborted"
            ELSE controller'[c] = controller[c]]_vars

C3_Witness ==
  /\ ~autoLoopRunning
  /\ \A id \in Ids : runningFeatures[id] = 0
  /\ \E p \in Procs : task[p].pc = "stream" /\ controller[p] = "aborted"
  /\ \E p \in Procs : task[p].pc = "load"

\* C4: a resumeFeature call that was not disturbed, whose attempts all ended
\* with the end of the stream and whose feature is in_progress when it
\* completes, has invoked the delegate exactly 4 times and returns a
\* non-passing result.
C4_ResumeFourInvocations ==
  [][\A p \in Observed :
       ( /\ ResumeSupervise(p)
         /\ task'[p].pc = "idle"
         /\ task[p].clean
         /\ statusOf(task[p].featureId) = "in_progress" )
       => /\ task[p].calls = 4
          /\ task'[p].calls = 4
          /\ task'[p].outcome = "returned"
          /\ ~task'[p].passes]_vars

C4_Witness ==
  \E p \in Observed :
    /\ task[p].kind = "resume" /\ task[p].outcome = "returned"
    /\ task[p].clean /\ task[p].calls = 4 /\ ~task[p].passes
    /\ statusOf(task[p].featureId) = "in_progress"

\* C5 (as claimed): while the feature is not verified, after every append the
\* previous content of its context file followed by the appended text is the
\* new content, whatever the interleaving of the executions and the outcome
\* of the read.
C5_LogOnlyGrows ==
  [][\A w \in Writers :
       (LogWrite(w) /\ statusOf(LogFeature) # "verified")
       => logFile'.content = logFile.content \o writer[w].content]_vars

\* the steps that end with updateFeatureStatus(f, "verified"): the tool call
\* of a delegate, and the completion of a call whose result passes
UpdatesToVerified(f) ==
  \E p \in Procs :
    \/ ToolUpdate(p, f, "verified")
    \/ /\ task[p].featureId = f
       /\ task[p].passes
       /\ RunFinish(p) \/ VerifyFinish(p) \/ ResumeSupervise(p) \/ LoopFinish(p)

C8_RunWithoutToolCall ==
  [][\A p \in Observed, f \in FeatureIds :
       ( /\ RunFinish(p) \/ LoopFinish(p)
         /\ task[p].featureId = f
         /\ task[p].clean
         /\ task[p].toolStatus = "none" )
       => /\ ~task[p].passes
          /\ ~task'[p].passes
          /\ task[p].kind = "run" => task'[p].outcome = "returned"
          /\ statusOf(f)' = "backlog"
          /\ contextFile'[f]]_vars

C8_Witness ==
  \E p \in Observed :
    /\ task[p].kind = "run" /\ task[p].outcome = "returned"
    /\ task[p].clean /\ task[p].toolStatus = "none"
    /\ ~task[p].passes
    /\ statusOf(task[p].featureId) = "backlog"
    /\ contextFile[task[p].featureId]

\* C9: while the feature list file is absent or unparsable loadFeatures is
\* the empty list, and the iteration of the loop that loads it sends the
\* complete event, ends the loop with the flag cleared, registers nothing,
\* calls no delegate and sends no error event.
C9_UnreadableListEndsLoop ==
  /\ [](~fileReadable => loadFeatures = <<>>)
  /\ [][\A p \in Procs :
          (LoopIter(p) /\ ~fileReadable)
          => /\ task'[p].pc = "idle"
             /\ task'[p].outcome = "returned"
             /\ task'[p].completeEvent
             /\ ~task'[p].errorEvent
             /\ task'[p].calls = 0
             /\ runningFeatures' = runningFeatures
             /\ execution' = execution
             /\ controller' = controller
             /\ ~autoLoopRunning']_vars

C9_Witness ==
  \E p \in Procs :
    /\ ~fileReadable
    /\ task[p].kind = "loop" /\ task[p].pc = "idle"
    /\ task[p].completeEvent /\ ~task[p].errorEvent
    /\ ~autoLoopRunning

\* C10: every entry of the registry belongs to a call in flight on that id,
\* so none is left by a call that has ended; and a request is rejected as
\* already running only while a call in flight on the id holds the entry.
C10_NoEntryLeftBehind ==
  /\ [](\A id \in Ids :
          runningFeatures[id] # 0
          => /\ InFlight(runningFeatures[id])
             /\ task[runningFeatures[id]].featureId = id)
  /\ [][\A p \in Procs, f \in RequestIds :
          ( /\ RunFeature(p, f) \/ VerifyFeature(p, f) \/ ResumeFeature(p, f)
            /\ task'[p].error = "already_running" )
          => \E q \in Procs : /\ q # p
                               /\ InFlight(q)
                               /\ task[q].featureId = f
                               /\ runningFeatures[f] = q]_vars

C10_Witness ==
  \E p \in Procs, q \in Procs :
    /\ task[p].kind = "run" /\ task[p].outcome = "raised"
    /\ task[p].error = "delegate_error"
    /\ task[q].kind = "verify" /\ task[q].pc = "stream"
    /\ task[q].featureId = task[p].featureId
    /\ runningFeatures[task[p].featureId] = q

\* C11 (as claimed): a call whose delegate stream was cancelled ends without
\* raising and without an error event, whichever entry point it came through.
C11_CancelledEndsQuietly ==
  [][\A p \in Procs :
       ( /\ task[p].cancelled
         /\ task[p].pc = "passEnd"
         /\ task'[p].pc # "passEnd" )
       => /\ task'[p].outcome # "raised"
          /\ ~task'[p].errorEvent]_vars

\* C12: a start() call made while the flag is set fails with the
\* already-running error, launches no loop body and leaves the flag, the
\* registry, the executions, the feature list and the context files as they
\* were.
C12_DuplicateStartRejected ==
  [][\A p \in Procs :
       (Start(p) /\ autoLoopRunning)
       => /\ task'[p].pc = "idle"
          /\ task'[p].outcome = "raised"
          /\ task'[p].error = "already_running"
          /\ \A q \in Procs : q # p => task'[q] = task[q]
          /\ autoLoopRunning' = autoLoopRunning
          /\ runningFeatures' = runningFeatures
          /\ execution' = execution
          /\ controller' = controller
          /\ featureList' = featureList
          /\ contextFile' = contextFile]_vars

C12_Witness ==
  \E p \in Procs, q \in Procs :
    /\ task[p].kind = "loop" /\ task[p].error = "already_running"
    /\ task[q].kind = "loop" /\ InFlight(q)
    /\ autoLoopRunning

\* C13: when verifyFeature returns, the status of the feature is verified if
\* the result passes and in_progress if it does not, whatever it was before.
C13_VerifyNeverBacklog ==
  [][\A p \in Procs, f \in FeatureIds :
       (VerifyFinish(p) /\ task[p].featureId = f)
       => /\ task'[p].outcome = "returned"
          /\ task'[p].passes = task[p].passes
          /\ statusOf(f)' = IF task[p].passes THEN "verified" ELSE "in_progress"
          /\ statusOf(f)' # "backlog"]_vars

C13_Witness ==
  \E p \in Observed :
    /\ task[p].kind = "verify" /\ task[p].outcome = "returned"
    /\ ~task[p].passes
    /\ task[p].toolStatus = "other"
    /\ statusOf(task[p].featureId) = "in_progress"

\* C14 (as claimed): a run, verify or resume call, or a loop iteration, that
\* nothing else disturbed has a passing result only if its delegate set the
\* feature to verified through the tool during that execution.
C14_PassOnlyByToolUpdate ==
  \A p \in Observed :
    ( /\ task[p].kind \in {"run", "verify", "resume", "loop"}
      /\ task[p].pc = "passEnd"
      /\ task[p].clean
      /\ task[p].passes )
    => task[p].toolStatus = "verified"

\* C15: an error other than a cancellation raised in an iteration of the loop
\* leaves the flag as it was, unregisters the feature of the iteration, sends
\* an error event and puts the loop to sleep; and a loop asleep after an error
\* begins a further iteration unless the flag has been cleared.
C15_LoopSurvivesIterationError ==
  /\ [][\A p \in Procs, f \in FeatureIds :
          (StreamError(p) /\ task[p].kind = "loop" /\ task[p].featureId = f)
          => /\ autoLoopRunning' = autoLoopRunning
             /\ runningFeatures'[f] = 0
             /\ task'[p].errorEvent
             /\ task'[p].kind = "loop"
             /\ task'[p].pc = "loopSleep"]_vars
  /\ \A p \in Procs :
       (task[p].kind = "loop" /\ task[p].pc = "loopSleep" /\ task[p].errorEvent)
       ~> (task[p].pc = "loopLoad" \/ ~autoLoopRunning)

C15_Witness ==
  \E p \in Procs :
    /\ task[p].kind = "loop" /\ task[p].pc = "loopLoad"
    /\ task[p].errorEvent
    /\ autoLoopRunning
    /\ \A id \in Ids : runningFeatures[id] = 0

\* the step in which the call in slot p ends its execution of its feature:
\* the call returns or raises, or the loop ends the iteration
EndsExecution(p) ==
  /\ InFlight(p)
  /\ task[p].featureId # NoFeature
  /\ task'[p].pc = "idle" \/ task'[p].featureId # task[p].featureId

\* C16: the step in which an execution of one id completes, fails or raises
\* leaves the registry entry of every other id, the execution object
\* registered under it (its controller and its stream) and the calls in
\* flight on it as they were, and aborts no controller of theirs.
C16_OtherExecutionsUntouched ==
  [][\A p \in Procs, b \in Ids :
       (EndsExecution(p) /\ task[p].featureId # b)
       => /\ runningFeatures'[b] = runningFeatures[b]
          /\ runningFeatures[b] # 0
               => execution'[runningFeatures[b]] = execution[runningFeatures[b]]
          /\ \A q \in Procs :
               (InFlight(q) /\ task[q].featureId = b)
               => (task'[q] = task[q] /\ controller'[q] = controller[q])]_vars

C16_Witness ==
  \E p \in Procs, q \in Procs :
    /\ task[p].kind = "run" /\ task[p].outcome = "raised"
    /\ task[p].error = "delegate_error"
    /\ task[q].kind = "analyze" /\ task[q].pc = "stream"
    /\ runningFeatures[task[q].featureId] = q
    /\ execution[q].abortController = q
    /\ controller[q] = "live"

\* the first record of the stored list, in file order, that is not verified
FirstUnverified(i) ==
  /\ i \in 1..Len(featureList)
  /\ featureList[i].status # "verified"
  /\ \A j \in 1..(i - 1) : featureList[j].status = "verified"

\* C17: an iteration of the loop dispatches nothing but the first record in
\* file order that is not verified; when that record is registered already
\* the iteration dispatches nothing, not a later record either, sends no
\* error event, and leaves the registry, the executions and the feature list
\* as they were.
C17_LoopTakesFirstUnverified ==
  [][\A p \in Procs :
       LoopIter(p)
       => /\ task'[p].featureId # NoFeature
               => \E i \in 1..Len(featureList) :
                     /\ FirstUnverified(i)
                     /\ task'[p].featureId = featureList[i].id
                     /\ runningFeatures[featureList[i].id] = 0
                     /\ runningFeatures'[featureList[i].id] = p
          /\ \A i \in 1..Len(featureList) :
               (FirstUnverified(i) /\ runningFeatures[featureList[i].id] # 0)
               => /\ task'[p].kind = "loop"
                  /\ task'[p].pc = "loopSleep"
                  /\ task'[p].featureId = NoFeature
                  /\ task'[p].calls = 0
                  /\ ~task'[p].errorEvent
                  /\ runningFeatures' = runningFeatures
                  /\ execution' = execution
                  /\ controller' = controller
                  /\ featureList' = featureList
                  /\ contextFile' = contextFile]_vars

C17_Witness ==
  \E p \in Procs, q \in Procs :
    /\ Len(featureList) >= 2
    /\ FirstUnverified(1)
    /\ featureList[2].status # "verified"
    /\ task[q].kind = "run" /\ InFlight(q)
    /\ runningFeatures[featureList[1].id] = q
    /\ runningFeatures[featureList[2].id] = 0
    /\ task[p].kind = "loop" /\ task[p].pc = "loopSleep"
    /\ ~task[p].errorEvent
    /\ autoLoopRunning

\* the value a record has for a field, "" when it has none
FieldOf(record, k) == IF k \in DOMAIN record THEN record[k] ELSE ""

\* the id is the id of a record of the stored list
StoredId(featureId) ==
  /\ storeFile.readable
  /\ \E i \in 1..Len(storeFile.records) :
       FieldOf(storeFile.records[i], "id") = featureId

\* the position of the first stored record with the id
FirstWithId(i, featureId) ==
  /\ i \in 1..Len(storeFile.records)
  /\ FieldOf(storeFile.records[i], "id") = featureId
  /\ \A j \in 1..(i - 1) : FieldOf(storeFile.records[j], "id") # featureId

\* C18 (as claimed): updateFeatureStatus(id, s) for an id of the stored list
\* writes as many records in the same order, each with no field besides id,
\* category, description, steps, status; the record with the id gets status
\* s, and the five fields of every other record are as they were.
C18_UpdateChangesOnlyStatus ==
  [][\A f \in UpdateIds, s \in Statuses :
       ( /\ lastUpdate'.id = f /\ lastUpdate'.status = s
         /\ StoredId(f)
         /\ StoreUpdateFeatureStatus(f, s) )
       => /\ storeFile'.readable
          /\ Len(storeFile'.records) = Len(storeFile.records)
          /\ \A i \in 1..Len(storeFile.records) :
               /\ DOMAIN storeFile'.records[i] \subseteq StableFields
               /\ \A k \in StableFields :
                    FieldOf(storeFile'.records[i], k) =
                      IF FirstWithId(i, f) /\ k = "status"
                      THEN s
                      ELSE FieldOf(storeFile.records[i], k)]_vars

\* C18 (amended): as above, except that a record stored without an id is
\* written with the id loadFeatures generated for it.
C18_UpdateChangesOnlyStatusAndMissingIds ==
  [][\A f \in UpdateIds, s \in Statuses :
       ( /\ lastUpdate'.id = f /\ lastUpdate'.status = s
         /\ StoredId(f)
         /\ StoreUpdateFeatureStatus(f, s) )
       => /\ storeFile'.readable
          /\ Len(storeFile'.records) = Len(storeFile.records)
          /\ \A i \in 1..Len(storeFile.records) :
               /\ DOMAIN storeFile'.records[i] \subseteq StableFields
               /\ \A k \in StableFields :
                    FieldOf(storeFile'.records[i], k) =
                      IF FirstWithId(i, f) /\ k = "status"
                      THEN s
                      ELSE IF k = "id" /\ "id" \notin DOMAIN storeFile.records[i]
                      THEN GeneratedId(i - 1, now)
                      ELSE FieldOf(storeFile.records[i], k)]_vars

C18_Witness ==
  /\ lastUpdate.outcome = "written"
  /\ lastUpdate.id \in StoreIds
  /\ lastUpdate.status = "in_progress"
  /\ Len(storeFile.records) = 2
  /\ storeFile.records[1].id = lastUpdate.id
  /\ storeFile.records[1].status = "in_progress"
  /\ storeFile.records[2].id \in GeneratedIds
  /\ storeFile.records[2].status = "backlog"

\* C19: when the feature list cannot be read or parsed, or no record of the
\* loaded list has the requested id, updateFeatureStatus returns without
\* raising and leaves the file and the context files as they were.
C19_FailedLookupWritesNothing ==
  [][\A f \in UpdateIds, s \in Statuses :
       ( /\ lastUpdate'.id = f /\ lastUpdate'.status = s
         /\ StoreUpdateFeatureStatus(f, s)
         /\ \/ ~storeFile.readable
            \/ \A i \in 1..Len(storeFile.records) :
                 /\ FieldOf(storeFile.records[i], "id") # f
                 /\ "id" \in DOMAIN storeFile.records[i]
                      \/ GeneratedId(i - 1, now) # f )
       => /\ lastUpdate'.outcome = "notFound"
          /\ storeFile' = storeFile
          /\ storeLogs' = storeLogs]_vars

C19_Witness ==
  /\ ~storeFile.readable
  /\ lastUpdate.outcome = "notFound"
  /\ lastUpdate.status = "verified"
  /\ lastUpdate.id \in storeLogs

\* C20 (as claimed): every call that ended with an error (start, runFeature,
\* verifyFeature, resumeFeature, analyzeProject, a duplicate start and a
\* duplicate request for a registered id included) has sent an error event
\* to the renderer.
C20_EveryErrorNotified ==
  \A p \in Procs : task[p].outcome = "raised" => task[p].errorEvent

\* no record the file yields has the id
NotInStore(featureId) ==
  ~fileReadable \/ \A i \in 1..Len(featureList) : featureList[i].id # featureId

\* C21: a runFeature, verifyFeature or resumeFeature call whose id is not in
\* the store raises not-found at its load, with no delegate call made, the
\* feature list unchanged, no further attempt and no registry entry for the
\* id left.
C21_UnknownIdNotFound ==
  [][\A p \in Procs :
       ( /\ NotInStore(task[p].featureId)
         /\ RunLoad(p) \/ VerifyLoad(p) \/ ResumeLoad(p) )
       => /\ task'[p].pc = "idle"
          /\ task'[p].outcome = "raised"
          /\ task'[p].error = "not_found"
          /\ task'[p].errorEvent
          /\ task'[p].calls = 0
          /\ task'[p].attempts = 0
          /\ featureList' = featureList
          /\ fileReadable' = fileReadable
          /\ contextFile' = contextFile
          /\ runningFeatures'[task[p].featureId] = 0]_vars

C21_Witness ==
  \E p \in Procs :
    /\ task[p].kind \in {"run", "verify", "resume"}
    /\ task[p].featureId = "fx"
    /\ task[p].error = "not_found"
    /\ task[p].calls = 0
    /\ fileReadable /\ Len(featureList) > 0
    /\ runningFeatures["fx"] = 0

\* C22: when a run, a verification, a resume or an iteration of the loop
\* completes, and when the delegate's status-update tool has been served,
\* the status the file holds for the feature is backlog, in_progress or
\* verified, whatever it held before.
C22_StatusAlwaysValid ==
  [][\A p \in Procs, f \in FeatureIds :
       /\ ( /\ task[p].featureId = f
            /\ fileReadable
            /\ \/ RunFinish(p) \/ VerifyFinish(p) \/ LoopFinish(p)
               \/ ResumeSupervise(p) /\ task'[p].outcome = "returned" )
          => statusOf(f)' \in Statuses
       /\ \A s \in Statuses :
            (fileReadable /\ ToolUpdate(p, f, s)) => statusOf(f)' = s]_vars

C22_Witness ==
  \E p \in Procs :
    /\ task[p].kind = "verify"
    /\ task[p].outcome = "returned"
    /\ ~task[p].passes
    /\ task[p].toolStatus = "none" /\ task[p].clean
    /\ statusOf(task[p].featureId) = "in_progress"

\* no two records of the list that have an id have the same id
DistinctIds(records) ==
  \A i \in 1..Len(records), j \in 1..Len(records) :
    (i # j /\ "id" \in DOMAIN records[i] /\ "id" \in DOMAIN records[j])
    => records[i].id # records[j].id

\* C23: a status update of a store whose ids are pairwise distinct leaves as
\* many records, with pairwise distinct ids, also when it writes generated
\* ids for the records that had none.
C23_IdsStayDistinct ==
  [][(storeFile.readable /\ DistinctIds(storeFile.records))
     => /\ storeFile'.readable
        /\ Len(storeFile'.records) = Len(storeFile.records)
        /\ DistinctIds(storeFile'.records)
        /\ \A i \in 1..Len(storeFile.records) :
             "id" \in DOMAIN storeFile.records[i]
             => FieldOf(storeFile'.records[i], "id") = storeFile.records[i].id]_vars

C23_Witness ==
  /\ lastUpdate.outcome = "written"
  /\ Len(storeFile.records) = 2
  /\ storeFile.records[1].id \in GeneratedIds
  /\ storeFile.records[2].id \in GeneratedIds
  /\ storeFile.records[1].id # storeFile.records[2].id

\* C24: the loop sends the complete event only in an iteration whose loaded
\* list has no record with a status other than verified; in that step the
\* flag becomes false; the flag is set again by start() only, and a start()
\* that finds it false is accepted.
C24_CompleteOnlyWhenAllVerified ==
  [][/\ \A p \in Procs :
          (task'[p].completeEvent /\ ~task[p].completeEvent)
          => /\ LoopIter(p)
             /\ \A i \in 1..Len(featureList) :
                  fileReadable => featureList[i].status = "verified"
             /\ ~autoLoopRunning'
             /\ task'[p].pc = "idle"
     /\ (autoLoopRunning' /\ ~autoLoopRunning) => \E q \in Procs : Start(q)
     /\ \A q \in Procs :
          (Start(q) /\ ~autoLoopRunning)
          => /\ autoLoopRunning'
             /\ task'[q].kind = "loop" /\ task'[q].pc = "loopLoad"
             /\ task'[q].outcome = "none"]_vars

C24_Witness ==
  \E p \in Procs, q \in Procs :
    /\ task[p].kind = "loop" /\ task[p].completeEvent /\ task[p].pc = "idle"
    /\ fileReadable
    /\ \A i \in 1..Len(featureList) : featureList[i].status = "verified"
    /\ task[q].kind = "loop" /\ task[q].pc = "loopLoad"
    /\ autoLoopRunning

\* C25: a resumeFeature call makes at most 4 delegate calls; the supervisor
\* starts a further attempt only when the last attempt did not pass and the
\* reloaded record is in_progress; when the reloaded record is backlog or
\* verified, or there is none, the call ends without a further attempt.
C25_RetryOnlyInProgress ==
  [][\A p \in Procs :
       /\ task'[p].kind = "resume" => task'[p].calls <= 4
       /\ \A st \in Statuses \cup {"missing"} :
            (statusOf(task[p].featureId) = st /\ ResumeSupervise(p))
            => /\ task'[p].calls > task[p].calls
                    => ~task[p].passes /\ st = "in_progress"
               /\ st # "in_progress"
                    => /\ task'[p].calls = task[p].calls
                       /\ task'[p].pc = "idle"
                       /\ task'[p].outcome = "returned"
                       /\ task'[p].passes = task[p].passes]_vars

C25_Witness ==
  \E p \in Procs :
    /\ task[p].kind = "resume"
    /\ task[p].outcome = "returned"
    /\ ~task[p].passes
    /\ task[p].calls = 1
    /\ ~fileReadable

\* stop() has returned since the loop body of p was started and start() has
\* not been called since: p is the only loop body there has been in any
\* slot, it is in flight and the flag is false
StoppedLoop(p) ==
  /\ task[p].kind = "loop" /\ InFlight(p)
  /\ ~autoLoopRunning
  /\ \A q \in Procs \ {p} : task[q].kind # "loop"

\* C26 (as claimed): once stop() has returned, and until start() is called
\* again, the loop body registers no execution and makes no delegate call.
C26_StoppedLoopDispatchesNothing ==
  [][\A p \in Procs :
       StoppedLoop(p)
       => /\ \A f \in DOMAIN runningFeatures :
               runningFeatures'[f] = p => runningFeatures[f] = p
          /\ task'[p].calls <= task[p].calls]_vars

\* the loop bodies that have not ended
LoopBodies == {p \in Procs : task[p].kind = "loop" /\ InFlight(p)}

\* C27 (as claimed): over every sequence of start() and stop() calls at most
\* one loop body is active at any instant.
C27_OneLoopBody == Cardinality(LoopBodies) <= 1

\* C28 (as claimed): the step in which a call ends its execution removes no
\* registry entry that another call has registered, under the same id
\* included.
C28_CleanupRemovesOwnEntryOnly ==
  [][\A p \in Procs, f \in DOMAIN runningFeatures :
       ( /\ EndsExecution(p)
         /\ runningFeatures[f] # 0
         /\ runningFeatures[f] # p )
       => runningFeatures'[f] = runningFeatures[f]]_vars

\* the status the file holds for the id
StoredStatus(featureId) ==
  storeFile.records[findFeature(storeFile.records, featureId)].status

\* C29 (as claimed): when the status updates of two executions for two
\* different ids have both completed, each of the two features has the
\* status its own update wrote, also when the two updates overlapped.
C29_BothUpdatesTakeEffect ==
  \A u \in Updaters, v \in Updaters :
    ( /\ updater[u].pc = "done" /\ updater[v].pc = "done"
      /\ updater[u].id # updater[v].id )
    => /\ StoredStatus(updater[u].id) = updater[u].status
       /\ StoredStatus(updater[v].id) = updater[v].status

\* C30 (as claimed): at most one updateFeatureStatus call is in progress for
\* a feature id at any instant, the calls of the executions themselves and
\* those their delegates make through the tool counted together.
C30_OneUpdatePerId ==
  \A u \in Updaters, v \in Updaters :
    ( /\ u # v
      /\ updater[u].pc = "loaded" /\ updater[v].pc = "loaded" )
    => updater[u].id # updater[v].id

\* ---------------------------------------------------------------- C31..C40
\* the call in slot p is the only call the service has had
Alone(p) == \A q \in Procs \ {p} : task[q] = IdleTask

\* the step ends the entry point, or the iteration of the loop, of slot p
Completes(p) ==
  /\ task[p].pc \in {"stream", "passEnd"}
  /\ task'[p].pc \in {"idle", "loopSleep"}

\* C31 (as claimed): when the last status the delegate of an execution set
\* for its feature through the tool is verified and nothing but stop() and
\* this execution has acted, the status of the feature is verified when the
\* entry point or the iteration completes, whether the stream ended or was
\* cancelled.
C31_ToolVerifiedPersists ==
  [][\A p \in Observed, f \in FeatureIds :
       ( /\ task[p].featureId = f
         /\ task[p].toolStatus = "verified"
         /\ Alone(p)
         /\ Completes(p) )
       => statusOf(f)' = "verified"]_vars

\* C31 (amended): with the last tool status verified, the status is verified
\* at completion when the stream was not cancelled (it ended, raised another
\* error, or the execution left the stream for its missing registry entry);
\* when the stream was cancelled the pass returns passes: false without
\* reading the list and the entry point writes backlog (run, loop) or
\* in_progress (verify, resume).
C31_ToolVerifiedPersistsUnlessCancelled ==
  [][\A p \in Observed, f \in FeatureIds :
       ( /\ task[p].featureId = f
         /\ task[p].toolStatus = "verified"
         /\ Completes(p) )
       => /\ (task[p].clean \/ (Alone(p) /\ ~task[p].cancelled))
             => statusOf(f)' = "verified"
          /\ (Alone(p) /\ task[p].cancelled)
             => statusOf(f)' = IF task[p].kind \in {"run", "loop"}
                               THEN "backlog" ELSE "in_progress"]_vars

\* a run whose delegate set the feature to verified and was then cancelled
\* has returned passes: false and the feature is in backlog
C31_Witness ==
  \E p \in Observed :
    /\ Alone(p)
    /\ task[p].kind = "run" /\ task[p].outcome = "returned"
    /\ task[p].toolStatus = "verified"
    /\ ~task[p].passes
    /\ statusOf(task[p].featureId) = "backlog"

\* the stream loop of slot p is between its first message and its end
StreamOpen(p) == stream[p].pc \in {"next", "blocks"}

\* the delegate text and tool events slot p has appended and forwarded
DelegateEvents(p) == SelectSeq(stream[p].events, LAMBDA e : e \in BlockTypes)

\* C32 (as claimed): while the registry has no entry under the feature id of
\* an execution whose stream is open, the execution appends no delegate text
\* or tool event to the context file and forwards none.
C32_NoEventWithoutEntry ==
  [][\A p \in Procs :
       ( /\ StreamOpen(p)
         /\ runningFeatures[stream[p].featureId] = 0 )
       => DelegateEvents(p)' = DelegateEvents(p)]_vars

\* C32 (amended): while the registry has no entry under its feature id, an
\* execution takes up no further message of the delegate: when the next
\* message arrives it leaves the stream loop without appending or forwarding
\* anything.  (The content blocks of the message it had taken up before the
\* entry was removed are still appended and forwarded.)
C32_NoMessageWithoutEntry ==
  [][\A p \in Procs :
       ( /\ stream[p].pc = "next"
         /\ runningFeatures[stream[p].featureId] = 0 )
       => /\ stream'[p].events = stream[p].events
          /\ stream'[p].msgs = stream[p].msgs
          /\ stream'[p].pc \in {"next", "broke", "over"}]_vars

\* an execution left its stream loop at a message that arrived after its
\* entry was removed, having appended and forwarded an earlier message
C32_Witness ==
  \E p \in Procs :
    /\ stream[p].pc = "broke"
    /\ runningFeatures[stream[p].featureId] = 0
    /\ DelegateEvents(p) # <<>>

\* the retry loop of resumeFeature goes into another attempt: the retry
\* marker is written to the context file and the auto-retry progress is sent
RetryTaken(p) ==
  /\ task[p].kind = "resume" /\ task[p].pc = "passEnd"
  /\ retryWanted(task[p].passes, task[p].attempts,
                 statusOf(task[p].featureId))

\* C33: after an attempt of a resumeFeature call was cancelled, the retry
\* loop goes into no further attempt: it writes no retry marker, sends no
\* auto-retry progress and calls the delegate no more for that call.
C33_NoRetryAfterCancel ==
  [][\A p \in Procs :
       ( /\ task[p].cancelled
         /\ ResumeSupervise(p) )
       => /\ ~RetryTaken(p)
          /\ task'[p].calls = task[p].calls]_vars

\* C34: when a resumeFeature call of a stored feature returns with passes:
\* false, the status of the feature in the list is in_progress, whatever it
\* was before the call and whatever the delegate set during the call.
C34_FailedResumeLeavesInProgress ==
  [][\A p \in Procs, f \in FeatureIds :
       ( /\ task[p].featureId = f
         /\ ResumeSupervise(p)
         /\ task'[p].outcome = "returned"
         /\ ~task'[p].passes )
       => statusOf(f)' = "in_progress"]_vars

\* a resumeFeature call whose delegate set the feature to backlog in its
\* first attempt has returned passes: false and the feature is in_progress
C34_Witness ==
  \E p \in Observed :
    /\ task[p].kind = "resume" /\ task[p].outcome = "returned"
    /\ ~task[p].passes
    /\ task[p].clean /\ task[p].toolStatus = "other" /\ task[p].calls = 1
    /\ statusOf(task[p].featureId) = "in_progress"

\* record i of the stored list has no id, and featureId is the id a load of
\* the list gave it at a time up to now
LoadedIdOf(i, featureId) ==
  /\ storeFile.readable
  /\ i \in 1..Len(storeFile.records)
  /\ "id" \notin DOMAIN storeFile.records[i]
  /\ \E t \in 0..now : loadStoredFeatures(storeFile, t)[i].id = featureId

\* C35: a status update keyed by the id an earlier load of the unchanged
\* store gave to a record without an id finds that record and writes the
\* new status to it.
C35_LoadedIdFindsRecord ==
  [][\A f \in GeneratedIds, s \in Statuses :
       ( /\ lastUpdate'.id = f /\ lastUpdate'.status = s
         /\ StoreUpdateFeatureStatus(f, s) )
       => \A i \in 1..MaxRecords :
            LoadedIdOf(i, f)
            => /\ lastUpdate'.outcome = "written"
               /\ storeFile'.records[i].status = s]_vars

\* C36: the handler of the status tool never raises, and it answers with the
\* success text only if the list then holds a record with the requested id
\* whose status is the requested one.
C36_SuccessOnlyIfPersisted ==
  [][\A f \in UpdateIds, s \in Statuses :
       ( /\ lastUpdate'.id = f /\ lastUpdate'.status = s
         /\ \E w \in BOOLEAN : UpdateFeatureStatusTool(f, s, w) )
       => /\ lastUpdate'.answer \in {"success", "failed"}
          /\ lastUpdate'.answer = "success"
             => /\ storeFile'.readable
                /\ \E i \in 1..Len(storeFile'.records) :
                     /\ FieldOf(storeFile'.records[i], "id") = f
                     /\ storeFile'.records[i].status = s]_vars

\* C37: while the loop flag is set, that is from an accepted start() until
\* stop() or the end of the backlog, the service holds a controller of the
\* loop (one that is no execution's: the executions' controllers are kept in
\* the execution objects).
C37_LoopTokenExists ==
  autoLoopRunning => autoLoopAbortController # NoController

\* C38: in every state an execution object whose query is set has its
\* abortController set (the two are set when the delegate call begins and
\* set to null together when the pass returns or raises).
C38_StreamImpliesToken ==
  \A o \in DOMAIN execution :
    execution[o].query => execution[o].abortController # 0

\* the loop in slot p has sent the complete event and ended, every record of
\* the list is verified, the registry is empty and the flag is cleared
LoopComplete(p) ==
  /\ task[p].kind = "loop" /\ task[p].pc = "idle"
  /\ task[p].completeEvent
  /\ \A i \in 1..Len(loadFeatures) : loadFeatures[i].status = "verified"
  /\ \A id \in DOMAIN runningFeatures : runningFeatures[id] = 0
  /\ ~autoLoopRunning

\* C39: with fair scheduling, delegates that verify their feature and end,
\* no stop() and no other writer, a loop that was started reaches the
\* complete event with every feature verified, the registry empty and the
\* flag cleared.
C39_LoopCompletes ==
  \A p \in Procs :
    (task[p].kind = "loop" /\ InFlight(p)) ~> LoopComplete(p)

\* a loop has completed: the list it started on had a record that was not
\* verified, so it ran at least one feature before
C39_Witness ==
  \E p \in Procs : LoopComplete(p)

\* C40: when no executeQuery call is between its start and its finally
\* block, every variable of process.env has the value it had before the
\* first call, or is absent if it was absent.
C40_EnvRestored ==
  (\A q \in Queries : provider[q].pc # "streaming") => processEnv = firstEnv

====
